---- MODULE Spec2Model ----
(***************************************************************************)
(* Video-MIDI Trigger (src/video-midi-trigger.py).                         *)
(*                                                                         *)
(* The model follows the three classes of the program: MIDIManager (the    *)
(* map of output connections), Trigger (one region: its validated          *)
(* configuration, its detection and its runtime state) and                 *)
(* VideoMIDITrigger (the configuration file, the reload, the per-frame     *)
(* evaluation, the resets and the frame loop of run()).                    *)
(*                                                                         *)
(* Numbers.  Python None is modelled by None (-1) where the value is a      *)
(* number (every number of the program that can be None is >= 0 when set), *)
(* by NoDevice where it is a device name, and by NoRoi where it is an      *)
(* image sample.  A float is a pair <<num, den>> with den > 0: the means   *)
(* of np.mean and the quotients of the range mapping are exact rationals   *)
(* here; binary floating point error is not modelled.                      *)
(***************************************************************************)
EXTENDS Integers, Sequences, FiniteSets, TLC

VARIABLES
    pc,                  \* position of the process: start, top, process, key, exited, failed
    file,                \* the configuration file: [content, mtime], written from outside
    config,              \* self.config: the loaded configuration (an index of Configs, 0 = None)
    config_mtime,        \* self.config_mtime
    triggers,            \* self.triggers: the list of Trigger objects
    default_device_name, \* self.midi_manager.default_device_name
    controllers,         \* self.midi_manager.controllers: the set of keys of the map
    frame_size,          \* <<self.frame_height, self.frame_width>>
    now,                 \* the last value time.time() returned
    sent,                \* the MIDI messages handed to the connections by the last step
    hist,                \* observation: per trigger, what its past frames and messages were
    step                 \* observation: what the last step was and how it ended

vars == <<pc, file, config, config_mtime, triggers, default_device_name,
          controllers, frame_size, now, sent, hist, step>>

(***************************************************************************)
(* Bounds of the model.                                                    *)
(***************************************************************************)
MaxTime == 3
MaxMtime == 1
MaxDt == 1

(***************************************************************************)
(* Values.                                                                 *)
(***************************************************************************)
None == 0 - 1
NoDevice == "<none>"
NoRoi == <<>>
Zero == <<0, 1>>

Min2(a, b) == IF a <= b THEN a ELSE b
Max2(a, b) == IF a >= b THEN a ELSE b

\* Python int(): truncation toward zero of the rational n/d, d > 0.
IntTrunc(n, d) == IF n >= 0 THEN n \div d ELSE 0 - ((0 - n) \div d)

\* Python 3 round(): the nearest integer to n/d (d > 0), a tie going to the even one.
Round(n, d) ==
    LET f == n \div d
        r == n - f * d
    IN  IF 2 * r < d THEN f
        ELSE IF 2 * r > d THEN f + 1
        ELSE IF f % 2 = 0 THEN f ELSE f + 1

RECURSIVE SumSeq(_)
SumSeq(s) == IF s = <<>> THEN 0 ELSE Head(s) + SumSeq(Tail(s))

Abs(a) == IF a >= 0 THEN a ELSE 0 - a

(***************************************************************************)
(* Images.  A gray frame is [h, w, px]: px the pixels, row after row.      *)
(***************************************************************************)
Pixels == {0, 200}

Frames(h, w) == { [h |-> h, w |-> w, px |-> p] : p \in [1..(h * w) -> Pixels] }

\* gray_frame[y:y+h, x:x+w]: numpy cuts the slice to the frame.
ExtractRoi(frame, x, y, w, h) ==
    LET x1 == Min2(x + w, frame.w)
        y1 == Min2(y + h, frame.h)
        rw == Max2(x1 - x, 0)
        rh == Max2(y1 - y, 0)
    IN  [h |-> rh, w |-> rw,
         px |-> [k \in 1..(rh * rw) |->
                   frame.px[(y + ((k - 1) \div rw)) * frame.w + x + ((k - 1) % rw) + 1]]]

Shape(roi) == <<roi.h, roi.w>>

\* float(np.mean(roi))
Mean(roi) == <<SumSeq(roi.px), Len(roi.px)>>

\* float(np.mean(cv2.absdiff(a, b))), a and b of one shape
MeanAbsDiff(a, b) == <<SumSeq([k \in 1..Len(a.px) |-> Abs(a.px[k] - b.px[k])]), Len(a.px)>>

\* q >= c and q <= c for a rational q and an integer c
RatGe(q, c) == q[1] >= c * q[2]
RatLe(q, c) == q[1] <= c * q[2]
RatIn(q, lo, hi) == RatGe(q, lo) /\ RatLe(q, hi)

(***************************************************************************)
(* Configuration values, as yaml.safe_load returns them.  A key that is    *)
(* absent from a mapping has the value None (NoDevice for 'device').       *)
(***************************************************************************)
NoCoords == <<>>
DefaultVelocity == 100
DefaultChannel == 0

BinaryTypes == {"brightness", "darkness", "motion", "difference"}
ContinuousTypes == {"range", "difference range"}

\* midi.velocity: absent, a number, or {min: [detected, velocity], max: [detected, velocity]}.
\* A velocity is a number, whole or not: a rational <<n, d>> with d > 0.
NoNumber == <<0, 0>>
NoVelocity == [mode |-> "absent", fixed |-> NoNumber,
               min_detected |-> None, min_value |-> NoNumber,
               max_detected |-> None, max_value |-> NoNumber]
FixedVelocity(v) == [NoVelocity EXCEPT !.mode = "fixed", !.fixed = <<v, 1>>]
AnchoredVelocity(d0, q0, d1, q1) ==
    [mode |-> "variable", fixed |-> NoNumber,
     min_detected |-> d0, min_value |-> q0, max_detected |-> d1, max_value |-> q1]
VariableVelocity(d0, v0, d1, v1) == AnchoredVelocity(d0, <<v0, 1>>, d1, <<v1, 1>>)

NoteMidi(n, vel, ch) == [note |-> n, velocity |-> vel, channel |-> ch, cc |-> None]
CCMidi(c, ch) == [note |-> None, velocity |-> NoVelocity, channel |-> ch, cc |-> c]

Position(x, y, w, h) == [x |-> x, y |-> y, width |-> w, height |-> h]

(***************************************************************************)
(* class Trigger                                                           *)
(***************************************************************************)

\* config.get(key, global_defaults.get(key, 0.0))
WithDefault(own, global) == IF own # None THEN own ELSE IF global # None THEN global ELSE 0

InRange(v, lo, hi) == lo <= v /\ v <= hi

\* The velocity checks of Trigger.__init__ for a binary mode.
VelocityValid(vel) ==
    CASE vel.mode = "absent" -> TRUE
      [] vel.mode = "fixed" -> RatIn(vel.fixed, 0, 127)
      [] OTHER -> RatIn(vel.min_value, 0, 127) /\ RatIn(vel.max_value, 0, 127)

\* Whether Trigger.__init__ accepts the entry: none of its checks raises ValueError.
TriggerValid(cfg, global_defaults) ==
    /\ \A k \in {"x", "y", "width", "height"} : InRange(cfg.position[k], 0, 100)
    /\ WithDefault(cfg.debounce, global_defaults.debounce) >= 0
    /\ WithDefault(cfg.throttle, global_defaults.throttle) >= 0
    /\ cfg.type \in BinaryTypes \cup ContinuousTypes
    /\ cfg.type \in BinaryTypes => cfg.threshold # None /\ InRange(cfg.threshold, 0, 255)
    /\ cfg.type \in ContinuousTypes =>
          /\ cfg.min # None /\ cfg.max # None
          /\ InRange(cfg.min, 0, 255) /\ InRange(cfg.max, 0, 255)
    /\ InRange(IF cfg.midi.channel = None THEN DefaultChannel ELSE cfg.midi.channel, 0, 15)
    /\ cfg.type \in BinaryTypes =>
          /\ cfg.midi.note # None /\ InRange(cfg.midi.note, 0, 127)
          /\ VelocityValid(cfg.midi.velocity)
    /\ cfg.type \in ContinuousTypes =>
          cfg.midi.cc # None /\ InRange(cfg.midi.cc, 0, 127)

\* The object Trigger.__init__ leaves when it does not raise.
NewTrigger(cfg, global_defaults) ==
    [name |-> cfg.name,
     position |-> cfg.position,
     trigger_type |-> cfg.type,
     threshold |-> cfg.threshold,
     range_min |-> cfg.min,
     range_max |-> cfg.max,
     midi_config |-> cfg.midi,
     device_name |-> cfg.device,
     debounce |-> WithDefault(cfg.debounce, global_defaults.debounce),
     throttle |-> WithDefault(cfg.throttle, global_defaults.throttle),
     velocity |-> IF cfg.type \in ContinuousTypes THEN NoVelocity
                  ELSE IF cfg.midi.velocity.mode = "absent" THEN FixedVelocity(DefaultVelocity)
                  ELSE cfg.midi.velocity,
     active |-> FALSE,
     last_cc_value |-> None,
     range_level |-> Zero,
     roi_coords |-> NoCoords,
     previous_roi |-> NoRoi,
     first_roi |-> NoRoi,
     detected_value |-> Zero,
     became_invalid_time |-> None,
     last_deactivated_time |-> None]

\* A faulty variant: a region that overflows the frame is not clipped.
RoiOfUnclipped(position, frame_height, frame_width) ==
    LET x == IntTrunc(frame_width * position.x, 100)
        y == IntTrunc(frame_height * position.y, 100)
        w == IntTrunc(frame_width * position.width, 100)
        h == IntTrunc(frame_height * position.height, 100)
    IN  IF w <= 0 \/ h <= 0 THEN NoCoords
        ELSE IF x < 0 \/ y < 0 \/ x >= frame_width \/ y >= frame_height THEN NoCoords
        ELSE <<x, y, w, h>>

\* Trigger.setup_roi: the pixel rectangle, or no rectangle when it raises.
RoiOf(position, frame_height, frame_width) ==
    LET x == IntTrunc(frame_width * position.x, 100)
        y == IntTrunc(frame_height * position.y, 100)
        w == IntTrunc(frame_width * position.width, 100)
        h == IntTrunc(frame_height * position.height, 100)
        w2 == IF x + w > frame_width THEN frame_width - x ELSE w
        h2 == IF y + h > frame_height THEN frame_height - y ELSE h
    IN  IF w <= 0 \/ h <= 0 THEN NoCoords
        ELSE IF x < 0 \/ y < 0 \/ x >= frame_width \/ y >= frame_height THEN NoCoords
        ELSE <<x, y, w2, h2>>

SetupRoiRaises(t, frame_height, frame_width) ==
    RoiOf(t.position, frame_height, frame_width) = NoCoords

\* setup_roi leaves roi_coords as it was when it raises.
SetupRoi(t, frame_height, frame_width) ==
    IF SetupRoiRaises(t, frame_height, frame_width) THEN t
    ELSE [t EXCEPT !.roi_coords = RoiOf(t.position, frame_height, frame_width)]

\* A faulty variant: the level is measured from the lower end of the range.
RangeLevelFromLow(q, range_min, range_max) ==
    LET low == Min2(range_min, range_max)
        high == Max2(range_min, range_max)
        clipped == IF ~RatGe(q, low) THEN <<low * q[2], q[2]>>
                   ELSE IF ~RatLe(q, high) THEN <<high * q[2], q[2]>>
                   ELSE q
    IN  IF range_min = range_max THEN Zero
        ELSE <<clipped[1] - low * clipped[2], (high - low) * clipped[2]>>

\* The range mapping: the level, a rational with a positive denominator.
RangeLevel(q, range_min, range_max) ==
    LET low == Min2(range_min, range_max)
        high == Max2(range_min, range_max)
        clipped == IF ~RatGe(q, low) THEN <<low * q[2], q[2]>>
                   ELSE IF ~RatLe(q, high) THEN <<high * q[2], q[2]>>
                   ELSE q
        num == clipped[1] - range_min * clipped[2]
        den == (range_max - range_min) * clipped[2]
    IN  IF range_min = range_max THEN Zero
        ELSE IF den < 0 THEN <<0 - num, 0 - den>> ELSE <<num, den>>

\* int(round(self.range_level * 127))
RangeValue(level) == Round(level[1] * 127, level[2])

\* The sample of the trigger's region.
CurrentRoi(t, gray_frame) ==
    ExtractRoi(gray_frame, t.roi_coords[1], t.roi_coords[2], t.roi_coords[3], t.roi_coords[4])

\* When a motion trigger compares: it has a reference of the sample's shape.
MotionCompares(t, current_roi) ==
    t.previous_roi # NoRoi /\ Shape(t.previous_roi) = Shape(current_roi)

\* When a difference trigger compares: it has a baseline of the sample's shape.
BaselineCompares(t, current_roi) ==
    t.first_roi # NoRoi /\ Shape(t.first_roi) = Shape(current_roi)

\* A faulty variant: the reference is not replaced.
MotionReferenceKept(t, current_roi) == t.previous_roi

\* The sample a motion trigger keeps as its reference after a call.
MotionReference(t, current_roi) == current_roi

\* Trigger.check_trigger: [t: the trigger afterwards, result: what it returns]
\* (a boolean for the binary modes, the control value for the continuous ones).
CheckTrigger(t, gray_frame) ==
    IF t.roi_coords = NoCoords
    THEN [t |-> t, result |-> IF t.trigger_type \in ContinuousTypes THEN 0 ELSE FALSE]
    ELSE
    LET roi == CurrentRoi(t, gray_frame)
        avg == Mean(roi)
    IN  CASE t.trigger_type = "brightness" ->
               [t |-> [t EXCEPT !.detected_value = avg],
                result |-> RatGe(avg, t.threshold)]
          [] t.trigger_type = "darkness" ->
               [t |-> [t EXCEPT !.detected_value = avg],
                result |-> RatLe(avg, t.threshold)]
          [] t.trigger_type = "motion" ->
               IF ~MotionCompares(t, roi)
               THEN [t |-> [t EXCEPT !.previous_roi = roi, !.detected_value = Zero],
                     result |-> FALSE]
               ELSE LET d == MeanAbsDiff(roi, t.previous_roi)
                    IN  [t |-> [t EXCEPT !.previous_roi = MotionReference(t, roi),
                                         !.detected_value = d],
                         result |-> RatGe(d, t.threshold)]
          [] t.trigger_type = "difference" ->
               IF ~BaselineCompares(t, roi)
               THEN [t |-> [t EXCEPT !.first_roi = roi, !.detected_value = Zero],
                     result |-> FALSE]
               ELSE LET d == MeanAbsDiff(roi, t.first_roi)
                    IN  [t |-> [t EXCEPT !.detected_value = d],
                         result |-> RatGe(d, t.threshold)]
          [] t.trigger_type = "range" ->
               LET level == RangeLevel(avg, t.range_min, t.range_max)
               IN  [t |-> [t EXCEPT !.range_level = level], result |-> RangeValue(level)]
          [] t.trigger_type = "difference range" ->
               IF ~BaselineCompares(t, roi)
               THEN [t |-> [t EXCEPT !.first_roi = roi, !.range_level = Zero], result |-> 0]
               ELSE LET d == MeanAbsDiff(roi, t.first_roi)
                        level == RangeLevel(d, t.range_min, t.range_max)
                    IN  [t |-> [t EXCEPT !.range_level = level], result |-> RangeValue(level)]
          [] OTHER -> [t |-> t, result |-> FALSE]

\* A faulty variant: the value is not clamped to the anchors' detected values.
InterpolatedUnclamped(v, q) ==
    LET detected_range == v.max_detected - v.min_detected
        sign == IF detected_range < 0 THEN 0 - 1 ELSE 1
        den == sign * v.min_value[2] * v.max_value[2] * q[2] * detected_range
        num == sign * (v.min_value[1] * v.max_value[2] * q[2] * detected_range
                 + (q[1] - v.min_detected * q[2])
                   * (v.max_value[1] * v.min_value[2] - v.min_value[1] * v.max_value[2]))
    IN  IF detected_range = 0 THEN v.min_value
        ELSE <<Max2(0, Min2(127, Round(num, den))), 1>>

\* The velocity get_velocity returns in the variable mode for the detected
\* value q: an anchor's velocity as configured, or
\* int(max(0, min(127, round(min_value + ratio * velocity_range)))).
Interpolated(v, q) ==
    LET detected_range == v.max_detected - v.min_detected
        den == v.min_value[2] * v.max_value[2] * q[2] * detected_range
        num == v.min_value[1] * v.max_value[2] * q[2] * detected_range
                 + (q[1] - v.min_detected * q[2])
                   * (v.max_value[1] * v.min_value[2] - v.min_value[1] * v.max_value[2])
    IN  IF RatLe(q, v.min_detected) THEN v.min_value
        ELSE IF RatGe(q, v.max_detected) THEN v.max_value
        ELSE IF detected_range = 0 THEN v.min_value
        ELSE <<Max2(0, Min2(127, Round(num, den))), 1>>

\* Trigger.get_velocity, for a trigger that has a velocity configuration: a
\* number, whole or not.
GetVelocity(t) ==
    IF t.velocity.mode = "fixed" THEN t.velocity.fixed
    ELSE Interpolated(t.velocity, t.detected_value)

(***************************************************************************)
(* class MIDIController, class MIDIManager                                 *)
(***************************************************************************)
\* self.midi_out.get_ports(), where the program runs
AvailablePorts == <<"synth">>

\* The port open_virtual_port makes when there is no port.
VirtualPort == "Video-MIDI-Trigger"

\* str.lower(), on the names used here.
Lower(name) == IF name = "Synth" THEN "synth" ELSE name

\* if device_name: a name that is neither None nor empty.
Named(device_name) == device_name # NoDevice /\ device_name # ""

\* match_index + 1: the first port of that name, else the first port that has
\* the name when both are lower-cased; 0 when there is none.
MatchIndex(ports, device_name) ==
    LET exact == { i \in 1..Len(ports) : ports[i] = device_name }
        folded == { i \in 1..Len(ports) : Lower(ports[i]) = Lower(device_name) }
        First(S) == CHOOSE i \in S : \A k \in S : i <= k
    IN  IF exact # {} THEN First(exact)
        ELSE IF folded # {} THEN First(folded)
        ELSE 0

\* A faulty variant: a name that is no port is not refused.
ConnectNeverRaises(ports, device_name) == FALSE

\* MIDIController.__init__ raises ValueError: a name that matches no port.
ConnectRaises(ports, device_name) ==
    Named(device_name) /\ MatchIndex(ports, device_name) = 0

\* The port MIDIController.__init__ opens when it does not raise.
ConnectedPort(ports, device_name) ==
    IF ports = <<>> THEN VirtualPort
    ELSE IF ~Named(device_name) THEN ports[1]
    ELSE IF MatchIndex(ports, device_name) = 0 THEN ""
    ELSE ports[MatchIndex(ports, device_name)]

ControllerRaises(device_name) == ConnectRaises(AvailablePorts, device_name)

ResolvedName(default, device_name) ==
    IF device_name # NoDevice THEN device_name ELSE default

\* A faulty variant: a controller is made at every call.
GetControllerAlways(ports, ctrls, default, device_name) ==
    LET resolved_name == ResolvedName(default, device_name)
    IN  IF ConnectRaises(ports, resolved_name)
        THEN [raised |-> TRUE, controllers |-> ctrls, handle |-> resolved_name,
              opened |-> FALSE]
        ELSE [raised |-> FALSE, controllers |-> ctrls \cup {resolved_name},
              handle |-> resolved_name, opened |-> TRUE]

\* MIDIManager.get_controller with the ports rtmidi lists: [raised,
\* controllers: the map's keys afterwards, handle: the key of the controller
\* returned, opened: whether a MIDIController was made and put in the map].
GetControllerAt(ports, ctrls, default, device_name) ==
    LET resolved_name == ResolvedName(default, device_name)
    IN  IF resolved_name \in ctrls
        THEN [raised |-> FALSE, controllers |-> ctrls, handle |-> resolved_name,
              opened |-> FALSE]
        ELSE IF ConnectRaises(ports, resolved_name)
        THEN [raised |-> TRUE, controllers |-> ctrls, handle |-> resolved_name,
              opened |-> FALSE]
        ELSE [raised |-> FALSE, controllers |-> ctrls \cup {resolved_name},
              handle |-> resolved_name, opened |-> TRUE]

\* MIDIManager.get_controller, where the program runs.
GetController(ctrls, default, device_name) ==
    GetControllerAt(AvailablePorts, ctrls, default, device_name)

\* The message a controller hands to rtmidi, with the trigger it was sent for
\* (its name and, filled in by the loop over the list, its index).
NoteOn(handle, t, velocity) ==
    [kind |-> "on", dev |-> handle, channel |-> t.midi_config.channel,
     data1 |-> t.midi_config.note, data2 |-> velocity, name |-> t.name, idx |-> 0]
NoteOff(handle, t) ==
    [kind |-> "off", dev |-> handle, channel |-> t.midi_config.channel,
     data1 |-> t.midi_config.note, data2 |-> 0, name |-> t.name, idx |-> 0]
ControlChange(handle, t, value) ==
    [kind |-> "cc", dev |-> handle,
     channel |-> IF t.midi_config.channel = None THEN DefaultChannel
                 ELSE t.midi_config.channel,
     data1 |-> t.midi_config.cc, data2 |-> value, name |-> t.name, idx |-> 0]

(***************************************************************************)
(* VideoMIDITrigger.process_frame, for one trigger of the list.            *)
(* The result is [t, msgs, controllers, raised, cond]: the trigger and the *)
(* connection map afterwards, the messages sent, whether an exception left *)
(* the body, and the condition check_trigger returned ("T", "F", or "none" *)
(* for a continuous mode).                                                 *)
(***************************************************************************)
\* A faulty variant: no throttle.
CanActivateNoThrottle(t, current_time) == TRUE

\* The throttle test of the activation.
CanActivate(t, current_time) ==
    IF t.throttle > 0 /\ t.last_deactivated_time # None
    THEN current_time - t.last_deactivated_time >= t.throttle
    ELSE TRUE

\* A faulty variant: no debounce.
ShouldDeactivateNoDebounce(t, current_time) == TRUE

\* The debounce test of the deactivation (became_invalid_time as just recorded).
ShouldDeactivate(t, current_time) ==
    IF t.debounce > 0 /\ t.became_invalid_time # None
    THEN current_time - t.became_invalid_time >= t.debounce
    ELSE TRUE

\* A faulty variant: an active trigger activates again.
ActivatesWhenActive(t, current_time) == CanActivate(t, current_time)

\* The guard of the activation: the trigger is not active and the throttle lets it.
Activates(t, current_time) == ~t.active /\ CanActivate(t, current_time)

\* Whether a control value is sent: it differs from the last one sent.
ValueChanged(t, value) == value # t.last_cc_value

\* trigger.midi_config['channel'] raises KeyError when the key is absent.
ChannelMissing(t) == t.midi_config.channel = None

ProcessContinuous(t, gray_frame, ctrls, default) ==
    LET r == CheckTrigger(t, gray_frame)
        g == GetController(ctrls, default, t.device_name)
    IN  IF ValueChanged(r.t, r.result)
        THEN IF g.raised
             THEN [t |-> [r.t EXCEPT !.last_cc_value = r.result], msgs |-> <<>>,
                   controllers |-> g.controllers, raised |-> TRUE, cond |-> "none"]
             ELSE [t |-> [r.t EXCEPT !.last_cc_value = r.result, !.active = TRUE],
                   msgs |-> <<ControlChange(g.handle, r.t, r.result)>>,
                   controllers |-> g.controllers, raised |-> FALSE, cond |-> "none"]
        ELSE [t |-> [r.t EXCEPT !.active = TRUE], msgs |-> <<>>,
              controllers |-> ctrls, raised |-> FALSE, cond |-> "none"]

\* A faulty variant: became_invalid_time is cleared only when the trigger is
\* activated.
ProcessTriggeredKeepingInvalid(t, current_time, ctrls, default) ==
    LET t2 == [t EXCEPT !.active = TRUE, !.became_invalid_time = None]
        g == GetController(ctrls, default, t.device_name)
    IN  IF Activates(t, current_time)
        THEN IF ChannelMissing(t2) \/ g.raised
             THEN [t |-> t2, msgs |-> <<>>,
                   controllers |-> IF ChannelMissing(t2) THEN ctrls ELSE g.controllers,
                   raised |-> TRUE, cond |-> "T"]
             ELSE [t |-> t2, msgs |-> <<NoteOn(g.handle, t2, GetVelocity(t2))>>,
                   controllers |-> g.controllers, raised |-> FALSE, cond |-> "T"]
        ELSE [t |-> t, msgs |-> <<>>, controllers |-> ctrls, raised |-> FALSE,
              cond |-> "T"]

ProcessTriggered(t, current_time, ctrls, default) ==
    LET t1 == [t EXCEPT !.became_invalid_time = None]
        t2 == [t1 EXCEPT !.active = TRUE]
        g == GetController(ctrls, default, t.device_name)
    IN  IF Activates(t1, current_time)
        THEN IF ChannelMissing(t2) \/ g.raised
             THEN [t |-> t2, msgs |-> <<>>,
                   controllers |-> IF ChannelMissing(t2) THEN ctrls ELSE g.controllers,
                   raised |-> TRUE, cond |-> "T"]
             ELSE [t |-> t2, msgs |-> <<NoteOn(g.handle, t2, GetVelocity(t2))>>,
                   controllers |-> g.controllers, raised |-> FALSE, cond |-> "T"]
        ELSE [t |-> t1, msgs |-> <<>>, controllers |-> ctrls, raised |-> FALSE,
              cond |-> "T"]

\* A faulty variant: the debounce is counted from the last frame that found the
\* condition false.
ProcessNotTriggeredRestarting(t, current_time, ctrls, default) ==
    LET t1 == IF t.active THEN [t EXCEPT !.became_invalid_time = current_time] ELSE t
        t2 == [t1 EXCEPT !.active = FALSE, !.last_deactivated_time = current_time]
        g == GetController(ctrls, default, t.device_name)
    IN  IF t1.active /\ t1.debounce = 0
        THEN IF ChannelMissing(t2) \/ g.raised
             THEN [t |-> t2, msgs |-> <<>>,
                   controllers |-> IF ChannelMissing(t2) THEN ctrls ELSE g.controllers,
                   raised |-> TRUE, cond |-> "F"]
             ELSE [t |-> t2, msgs |-> <<NoteOff(g.handle, t2)>>,
                   controllers |-> g.controllers, raised |-> FALSE, cond |-> "F"]
        ELSE [t |-> t1, msgs |-> <<>>, controllers |-> ctrls, raised |-> FALSE,
              cond |-> "F"]

ProcessNotTriggered(t, current_time, ctrls, default) ==
    LET t1 == IF t.became_invalid_time = None /\ t.active
              THEN [t EXCEPT !.became_invalid_time = current_time] ELSE t
        t2 == [t1 EXCEPT !.active = FALSE, !.last_deactivated_time = current_time]
        g == GetController(ctrls, default, t.device_name)
    IN  IF t1.active /\ ShouldDeactivate(t1, current_time)
        THEN IF ChannelMissing(t2) \/ g.raised
             THEN [t |-> t2, msgs |-> <<>>,
                   controllers |-> IF ChannelMissing(t2) THEN ctrls ELSE g.controllers,
                   raised |-> TRUE, cond |-> "F"]
             ELSE [t |-> t2, msgs |-> <<NoteOff(g.handle, t2)>>,
                   controllers |-> g.controllers, raised |-> FALSE, cond |-> "F"]
        ELSE [t |-> t1, msgs |-> <<>>, controllers |-> ctrls, raised |-> FALSE,
              cond |-> "F"]

ProcessTrigger(t, gray_frame, current_time, ctrls, default) ==
    IF t.trigger_type \in ContinuousTypes
    THEN ProcessContinuous(t, gray_frame, ctrls, default)
    ELSE LET r == CheckTrigger(t, gray_frame)
         IN  IF r.result
             THEN ProcessTriggered(r.t, current_time, ctrls, default)
             ELSE ProcessNotTriggered(r.t, current_time, ctrls, default)

\* The messages of one trigger, marked with its place in the list.
Tagged(msgs, i) == [k \in 1..Len(msgs) |-> [msgs[k] EXCEPT !.idx = i]]

\* The loop of process_frame from trigger i on: acc is [triggers, sent,
\* controllers, raised, conds]; the loop ends at the first exception.
RECURSIVE ProcessFrom(_, _, _, _, _)
ProcessFrom(i, acc, gray_frame, current_time, default) ==
    IF i > Len(acc.triggers) \/ acc.raised THEN acc
    ELSE LET r == ProcessTrigger(acc.triggers[i], gray_frame, current_time,
                                 acc.controllers, default)
         IN  ProcessFrom(i + 1,
                         [triggers |-> [acc.triggers EXCEPT ![i] = r.t],
                          sent |-> acc.sent \o Tagged(r.msgs, i),
                          controllers |-> r.controllers,
                          raised |-> r.raised,
                          conds |-> Append(acc.conds, r.cond)],
                         gray_frame, current_time, default)

\* A faulty variant: the messages of a frame leave in the opposite order.
ProcessFrameBackwards(ts, gray_frame, current_time, ctrls, default) ==
    LET r == ProcessFrom(1, [triggers |-> ts, sent |-> <<>>, controllers |-> ctrls,
                             raised |-> FALSE, conds |-> <<>>],
                         gray_frame, current_time, default)
    IN  [r EXCEPT !.sent = [k \in 1..Len(r.sent) |-> r.sent[Len(r.sent) + 1 - k]]]

\* VideoMIDITrigger.process_frame
ProcessFrame(ts, gray_frame, current_time, ctrls, default) ==
    ProcessFrom(1, [triggers |-> ts, sent |-> <<>>, controllers |-> ctrls,
                    raised |-> FALSE, conds |-> <<>>],
                gray_frame, current_time, default)

(***************************************************************************)
(* VideoMIDITrigger.reset_triggers, reset_first_frame, cleanup             *)
(***************************************************************************)
\* 'note' in trigger.midi_config
HasNote(t) == t.midi_config.note # None

\* A faulty variant: last_deactivated_time survives the reset.
ClearedByResetKeepingThrottle(t) ==
    [t EXCEPT !.previous_roi = IF t.trigger_type = "motion" THEN NoRoi ELSE @,
              !.first_roi = IF t.trigger_type \in {"difference", "difference range"}
                            THEN NoRoi ELSE @,
              !.became_invalid_time = None]

\* The reference samples and the timing state reset_triggers clears.
ClearedByReset(t) ==
    [t EXCEPT !.previous_roi = IF t.trigger_type = "motion" THEN NoRoi ELSE @,
              !.first_roi = IF t.trigger_type \in {"difference", "difference range"}
                            THEN NoRoi ELSE @,
              !.became_invalid_time = None,
              !.last_deactivated_time = None]

\* The body of reset_triggers' loop for one trigger: [t, msgs, controllers, raised].
ResetTrigger(t, ctrls, default) ==
    LET g == GetController(ctrls, default, t.device_name)
        t1 == [t EXCEPT !.active = FALSE]
    IN  IF t.active /\ HasNote(t)
        THEN IF ChannelMissing(t) \/ g.raised
             THEN [t |-> t1, msgs |-> <<>>,
                   controllers |-> IF ChannelMissing(t) THEN ctrls ELSE g.controllers,
                   raised |-> TRUE]
             ELSE [t |-> ClearedByReset(t1), msgs |-> <<NoteOff(g.handle, t1)>>,
                   controllers |-> g.controllers, raised |-> FALSE]
        ELSE [t |-> ClearedByReset(t), msgs |-> <<>>, controllers |-> ctrls,
              raised |-> FALSE]

RECURSIVE ResetFrom(_, _, _)
ResetFrom(i, acc, default) ==
    IF i > Len(acc.triggers) \/ acc.raised THEN acc
    ELSE LET r == ResetTrigger(acc.triggers[i], acc.controllers, default)
         IN  ResetFrom(i + 1,
                       [triggers |-> [acc.triggers EXCEPT ![i] = r.t],
                        sent |-> acc.sent \o Tagged(r.msgs, i),
                        controllers |-> r.controllers,
                        raised |-> r.raised],
                       default)

\* VideoMIDITrigger.reset_triggers
ResetTriggers(ts, ctrls, default) ==
    ResetFrom(1, [triggers |-> ts, sent |-> <<>>, controllers |-> ctrls,
                  raised |-> FALSE], default)

\* A faulty variant: the motion reference and the last control value go too.
ResetFirstFrameAndMore(ts) ==
    [i \in 1..Len(ts) |->
       [ts[i] EXCEPT !.first_roi = NoRoi, !.previous_roi = NoRoi, !.last_cc_value = None]]

\* VideoMIDITrigger.reset_first_frame
ResetFirstFrame(ts) ==
    [i \in 1..Len(ts) |->
       IF ts[i].trigger_type \in {"difference", "difference range"}
       THEN [ts[i] EXCEPT !.first_roi = NoRoi] ELSE ts[i]]

\* The loop of cleanup: a Note Off for every active trigger that has a note.
RECURSIVE CleanupFrom(_, _, _)
CleanupFrom(i, acc, default) ==
    IF i > Len(acc.triggers) \/ acc.raised THEN acc
    ELSE LET t == acc.triggers[i]
             g == GetController(acc.controllers, default, t.device_name)
         IN  IF t.active /\ HasNote(t)
             THEN IF ChannelMissing(t) \/ g.raised
                  THEN [acc EXCEPT !.raised = TRUE]
                  ELSE CleanupFrom(i + 1,
                                   [acc EXCEPT !.sent = @ \o Tagged(<<NoteOff(g.handle, t)>>, i),
                                               !.controllers = g.controllers],
                                   default)
             ELSE CleanupFrom(i + 1, acc, default)

\* VideoMIDITrigger.cleanup: close_all empties the map when the loop did not raise.
Cleanup(ts, ctrls, default) ==
    LET r == CleanupFrom(1, [triggers |-> ts, sent |-> <<>>, controllers |-> ctrls,
                             raised |-> FALSE], default)
    IN  IF r.raised THEN r ELSE [r EXCEPT !.controllers = {}]

(***************************************************************************)
(* The configurations the file may hold.                                   *)
(***************************************************************************)
Entry(name, position, type, threshold, mn, mx, midi, device, debounce, throttle) ==
    [name |-> name, position |-> position, type |-> type, threshold |-> threshold,
     min |-> mn, max |-> mx, midi |-> midi, device |-> device,
     debounce |-> debounce, throttle |-> throttle]

Left == Position(0, 0, 50, 100)
Right == Position(50, 0, 100, 100)
Sliver == Position(0, 0, 10, 100)

DoorA == Entry("Door", Left, "brightness", 100, None, None,
               NoteMidi(60, FixedVelocity(100), 0), NoDevice, 2, 1)
DoorB == Entry("Door", Left, "darkness", 100, None, None,
               NoteMidi(62, VariableVelocity(0, 120, 200, 20), 1), "synth", None, None)
DriftA == Entry("Drift", Right, "difference", 100, None, None,
                NoteMidi(64, NoVelocity, 0), NoDevice, None, None)
DriftB == Entry("Drift", Right, "difference range", None, 0, 200,
                CCMidi(7, None), NoDevice, None, None)
Level == Entry("Level", Right, "range", None, 200, 0,
               [CCMidi(1, 2) EXCEPT !.note = 200], NoDevice, None, None)
Move == Entry("Move", Left, "motion", 100, None, None,
              NoteMidi(66, NoVelocity, 0), NoDevice, None, None)

Config(device, debounce, throttle, entries) ==
    [source |-> "camera", device |-> device, debounce |-> debounce,
     throttle |-> throttle, triggers |-> entries]

Configs ==
    << Config(NoDevice, None, None, <<DoorA, DriftA>>),
       Config("synth", None, None, <<DoorB, Level>>),
       [Config(NoDevice, None, None, <<DriftB, Move>>) EXCEPT !.source = "film.mp4"],
       Config(NoDevice, None, None, <<DoorA, DoorB>>),
       Config(NoDevice, None, None, <<DriftA, [DoorA EXCEPT !.threshold = 999]>>),
       Config(NoDevice, None, None,
              <<[DoorA EXCEPT !.device = "synth"], [DriftA EXCEPT !.device = "ghost"]>>),
       Config(NoDevice, None, None, <<DoorA, [DriftA EXCEPT !.position = Sliver]>>),
       Config(NoDevice, None, None, <<[DoorA EXCEPT !.midi.channel = None]>>),
       Config(NoDevice, None, None, <<DoorB, DoorA>>),
       Config(NoDevice, None, None, <<[DoorA EXCEPT !.throttle = 2]>>) >>

ConfigIds == 1..Len(Configs)

\* The size of the video's frames, <<height, width>>.
VideoSize == <<1, 2>>

(***************************************************************************)
(* VideoMIDITrigger._load_config, _ensure_trigger_devices, the ROI setup   *)
(***************************************************************************)
GlobalDefaults(cfg) == [debounce |-> cfg.debounce, throttle |-> cfg.throttle]

\* A faulty variant: no entry is rejected.
LoadNeverRaises(cfg) == FALSE

\* The list comprehension of _load_config raises when an entry is rejected.
LoadRaises(cfg) ==
    \E i \in 1..Len(cfg.triggers) : ~TriggerValid(cfg.triggers[i], GlobalDefaults(cfg))

\* self.triggers after _load_config returned.
LoadedTriggers(cfg) ==
    [i \in 1..Len(cfg.triggers) |-> NewTrigger(cfg.triggers[i], GlobalDefaults(cfg))]

\* _ensure_trigger_devices from trigger i on: [raised, controllers].
RECURSIVE EnsureFrom(_, _, _, _)
EnsureFrom(i, ts, ctrls, default) ==
    IF i > Len(ts) THEN [raised |-> FALSE, controllers |-> ctrls]
    ELSE IF ts[i].device_name = NoDevice THEN EnsureFrom(i + 1, ts, ctrls, default)
    ELSE LET g == GetController(ctrls, default, ts[i].device_name)
         IN  IF g.raised THEN [raised |-> TRUE, controllers |-> g.controllers]
             ELSE EnsureFrom(i + 1, ts, g.controllers, default)

EnsureTriggerDevices(ts, ctrls, default) == EnsureFrom(1, ts, ctrls, default)

\* "for trigger in self.triggers: trigger.setup_roi(...)" from trigger i on:
\* [raised, triggers]; the triggers after the one that raises keep their roi_coords.
RECURSIVE SetupFrom(_, _, _)
SetupFrom(i, ts, size) ==
    IF i > Len(ts) THEN [raised |-> FALSE, triggers |-> ts]
    ELSE IF SetupRoiRaises(ts[i], size[1], size[2]) THEN [raised |-> TRUE, triggers |-> ts]
    ELSE SetupFrom(i + 1, [ts EXCEPT ![i] = SetupRoi(ts[i], size[1], size[2])], size)

SetupAll(ts, size) == SetupFrom(1, ts, size)

(***************************************************************************)
(* VideoMIDITrigger._reload_if_changed                                     *)
(***************************************************************************)
\* The test that ends _reload_if_changed early.
NotModified(new_mtime, old_mtime) == old_mtime # None /\ new_mtime <= old_mtime

\* A faulty variant: the entry written first is kept.
SavedIndexFirst(ts, name) ==
    LET S == { i \in 1..Len(ts) : ts[i].name = name }
    IN  IF S = {} THEN 0 ELSE CHOOSE i \in S : \A k \in S : i <= k

\* timing_state[name]: the dictionary keeps the entry written last.
SavedIndex(ts, name) ==
    LET S == { i \in 1..Len(ts) : ts[i].name = name }
    IN  IF S = {} THEN 0 ELSE CHOOSE i \in S : \A k \in S : k <= i

\* A faulty variant: active is not restored.
RestoredWithoutActive(t, saved) ==
    [t EXCEPT !.became_invalid_time = saved.became_invalid_time,
              !.last_deactivated_time = saved.last_deactivated_time]

\* The fields the reload restores to a trigger from the saved entry.
Restored(t, saved) ==
    [t EXCEPT !.became_invalid_time = saved.became_invalid_time,
              !.last_deactivated_time = saved.last_deactivated_time,
              !.active = saved.active]

\* A faulty variant: the old triggers whose names are gone stay in the list.
RestoreAllKeepingOld(new, old) ==
    [j \in 1..Len(new) |->
       IF SavedIndex(old, new[j].name) = 0 THEN new[j]
       ELSE Restored(new[j], old[SavedIndex(old, new[j].name)])]
    \o SelectSeq(old, LAMBDA t : \A j \in 1..Len(new) : new[j].name # t.name)

\* The restoring loop of _reload_if_changed over the new list.
RestoreAll(new, old) ==
    [j \in 1..Len(new) |->
       IF SavedIndex(old, new[j].name) = 0 THEN new[j]
       ELSE Restored(new[j], old[SavedIndex(old, new[j].name)])]

\* A faulty variant: a configuration that names another device is turned down.
ReloadUnlessRewired(cfg, old, ctrls, default, size) ==
    IF LoadRaises(cfg) \/ cfg.device # default
    THEN [raised |-> TRUE, triggers |-> old, controllers |-> ctrls]
    ELSE LET new == LoadedTriggers(cfg)
             e == EnsureTriggerDevices(new, ctrls, default)
             r == SetupAll(RestoreAll(new, old), size)
         IN  IF e.raised
             THEN [raised |-> TRUE, triggers |-> new, controllers |-> e.controllers]
             ELSE [raised |-> r.raised, triggers |-> r.triggers,
                   controllers |-> e.controllers]

\* The body of _reload_if_changed once the file is found changed:
\* [raised, triggers, controllers] (self.config and self.config_mtime are
\* assigned by _load_config before anything can raise).
Reload(cfg, old, ctrls, default, size) ==
    IF LoadRaises(cfg)
    THEN [raised |-> TRUE, triggers |-> old, controllers |-> ctrls]
    ELSE LET new == LoadedTriggers(cfg)
             e == EnsureTriggerDevices(new, ctrls, default)
             r == SetupAll(RestoreAll(new, old), size)
         IN  IF e.raised
             THEN [raised |-> TRUE, triggers |-> new, controllers |-> e.controllers]
             ELSE [raised |-> r.raised, triggers |-> r.triggers,
                   controllers |-> e.controllers]

(***************************************************************************)
(* Observation.  hist[i] records, for the trigger at place i of the list,  *)
(* what the claims speak of and the program does not store:                *)
(*   cond     the condition of its last evaluation: "T", "F", or "none"    *)
(*            before the first one and for a continuous mode;              *)
(*   n        the Note On messages sent for it since the current run of    *)
(*            true conditions began, or the Note Off messages since the    *)
(*            current run of false conditions began (counted up to 2);     *)
(*   calm     no reset, and no reload from a list that held its name       *)
(*            twice, has happened since the run began;                     *)
(*   touched  a reload or a reset has happened since its last evaluation;  *)
(*   fsince   the time of the first frame of the current run of false      *)
(*            conditions, when that frame came right after a frame with a  *)
(*            true condition, found the trigger active, and no reload or   *)
(*            reset has happened since the true frame; else None;          *)
(*   offAt, offThr  the time of the last deactivation process_frame made,  *)
(*            and the trigger's throttle then; None after a reset;         *)
(*   offOk    no reload from a list holding its name twice since then;     *)
(*   cc, ccRep  the value of the last control message sent for it, and     *)
(*            whether the last frame sent that value again;                *)
(*   lit      the last note message sent for its name was a Note On;       *)
(*   on       the notes <<device, channel, note>> that are on: the last    *)
(*            note message sent for them, for whatever trigger, was a Note *)
(*            On (the same set in every record of the list).               *)
(* A reload hands the record on by name, as it hands on the timing state.  *)
(***************************************************************************)
HistFresh ==
    [cond |-> "none", n |-> 0, calm |-> TRUE, touched |-> FALSE, fsince |-> None,
     offAt |-> None, offThr |-> None, offOk |-> TRUE, cc |-> None, ccRep |-> FALSE,
     lit |-> FALSE, on |-> {}]

\* The places in msgs of the note messages sent for the name.
NotePlaces(msgs, name) ==
    { k \in 1..Len(msgs) : msgs[k].name = name /\ msgs[k].kind \in {"on", "off"} }

\* The notes that are on after msgs, when the ones of the set on were on before.
RECURSIVE NotesOn(_, _)
NotesOn(on, msgs) ==
    IF msgs = <<>> THEN on
    ELSE LET m == Head(msgs)
             key == <<m.dev, m.channel, m.data1>>
         IN  NotesOn(IF m.kind = "on" THEN on \cup {key}
                     ELSE IF m.kind = "off" THEN on \ {key} ELSE on,
                     Tail(msgs))

\* Whether the name's note is on after msgs, when it was on (lit) or off before.
LitAfter(lit, msgs, name) ==
    LET K == NotePlaces(msgs, name)
    IN  IF K = {} THEN lit ELSE msgs[CHOOSE k \in K : \A m \in K : m <= k].kind = "on"

Count(msgs, kind, i) ==
    Cardinality({ k \in 1..Len(msgs) : msgs[k].kind = kind /\ msgs[k].idx = i })

HistFrame(h, told, cond, msgs, i, current_time) ==
    LET on_i == Count(msgs, "on", i)
        off_i == Count(msgs, "off", i)
        n_i == IF cond = "T" THEN on_i ELSE off_i
        ccs == { msgs[k].data2 : k \in { k \in 1..Len(msgs) :
                                           msgs[k].kind = "cc" /\ msgs[k].idx = i } }
        h1 == IF cond = "none"
              THEN [h EXCEPT !.cond = "none", !.n = 0, !.calm = TRUE, !.fsince = None]
              ELSE IF cond = h.cond
              THEN [h EXCEPT !.n = Min2(2, @ + n_i)]
              ELSE [h EXCEPT !.cond = cond, !.n = n_i, !.calm = TRUE,
                             !.fsince = IF cond = "F" /\ h.cond = "T" /\ ~h.touched
                                           /\ told.active
                                        THEN current_time ELSE None]
        h2 == IF off_i > 0
              THEN [h1 EXCEPT !.offAt = current_time, !.offThr = told.throttle,
                              !.offOk = TRUE]
              ELSE h1
    IN  [h2 EXCEPT !.touched = FALSE,
                   !.lit = LitAfter(@, msgs, told.name),
                   !.on = NotesOn(@, msgs),
                   !.cc = IF ccs = {} THEN @ ELSE CHOOSE v \in ccs : TRUE,
                   !.ccRep = (ccs # {} /\ h.cc \in ccs)]

HistAfterFrame(hs, ts, r, current_time) ==
    [i \in 1..Len(hs) |->
       IF i <= Len(r.conds)
       THEN HistFrame(hs[i], ts[i], r.conds[i], r.sent, i, current_time)
       ELSE hs[i]]

HistAfterReset(hs, r) ==
    [i \in 1..Len(hs) |->
       [hs[i] EXCEPT !.n = IF hs[i].cond = "F" THEN Min2(2, @ + Count(r.sent, "off", i))
                           ELSE @,
                     !.touched = TRUE, !.calm = FALSE, !.fsince = None,
                     !.offAt = None, !.offThr = None, !.offOk = TRUE,
                     !.lit = LitAfter(@, r.sent, r.triggers[i].name),
                     !.on = NotesOn(@, r.sent)]]

NameCount(ts, name) == Cardinality({ i \in 1..Len(ts) : ts[i].name = name })

\* The old trigger a new one continues: the one at its place when the name is
\* the same, else the first of that name.
SourceIndex(old, j, name) ==
    IF j <= Len(old) /\ old[j].name = name THEN j
    ELSE LET S == { i \in 1..Len(old) : old[i].name = name }
         IN  IF S = {} THEN 0 ELSE CHOOSE i \in S : \A k \in S : i <= k

HistAfterReload(hs, old, new) ==
    [j \in 1..Len(new) |->
       LET src == SourceIndex(old, j, new[j].name)
           twice == NameCount(old, new[j].name) > 1
       IN  IF src = 0 THEN [HistFresh EXCEPT !.on = IF hs = <<>> THEN {} ELSE hs[1].on]
           ELSE [hs[src] EXCEPT !.touched = TRUE, !.fsince = None,
                                !.calm = @ /\ ~twice, !.offOk = @ /\ ~twice]]

(***************************************************************************)
(* The process: VideoMIDITrigger.__init__, run(), and the file's writer.   *)
(***************************************************************************)
Step(op, raised) == [op |-> op, raised |-> raised]

Init ==
    /\ pc = "start"
    /\ file \in [content : ConfigIds, mtime : {0}]
    /\ config = 0
    /\ config_mtime = None
    /\ triggers = <<>>
    /\ default_device_name = NoDevice
    /\ controllers = {}
    /\ frame_size = VideoSize
    /\ now = 0
    /\ sent = <<>>
    /\ hist = <<>>
    /\ step = Step("init", FALSE)

\* VideoMIDITrigger.__init__
Startup ==
    /\ pc = "start"
    /\ LET cfg == Configs[file.content]
           new == LoadedTriggers(cfg)
           g == GetController({}, cfg.device, NoDevice)
           e == EnsureTriggerDevices(new, g.controllers, cfg.device)
           r == SetupAll(new, VideoSize)
           loaded == ~LoadRaises(cfg)
           raised == ~loaded \/ g.raised \/ e.raised \/ r.raised
       IN  /\ config' = file.content
           /\ config_mtime' = file.mtime
           /\ triggers' = IF ~loaded THEN <<>>
                          ELSE IF g.raised \/ e.raised THEN new ELSE r.triggers
           /\ default_device_name' = IF loaded THEN cfg.device ELSE NoDevice
           /\ controllers' = IF ~loaded THEN {}
                             ELSE IF g.raised THEN g.controllers ELSE e.controllers
           /\ hist' = [i \in 1..Len(triggers') |-> HistFresh]
           /\ pc' = IF raised THEN "failed" ELSE "top"
           /\ step' = Step("startup", raised)
    /\ sent' = <<>>
    /\ UNCHANGED <<file, frame_size, now>>

\* Somebody writes the configuration file.  The program looks at the file only
\* in _reload_if_changed, so the write is taken just before that call, and the
\* writes between two calls count as the last of them.  The write leaves a
\* modification time after the loaded one: a write that leaves an older or equal
\* time is not seen by NotModified and changes nothing in the program.
WriteFile ==
    /\ pc = "top"
    /\ NotModified(file.mtime, config_mtime)
    /\ \E c \in ConfigIds, m \in (config_mtime + 1)..MaxMtime :
          /\ [content |-> c, mtime |-> m] # file
          /\ file' = [content |-> c, mtime |-> m]
    /\ UNCHANGED <<pc, config, config_mtime, triggers, default_device_name,
                   controllers, frame_size, now, sent, hist, step>>

\* run(): cap.read() finds the video at its end; reset_triggers, and the loop
\* starts over.
VideoEnded ==
    /\ pc = "top"
    /\ LET r == ResetTriggers(triggers, controllers, default_device_name)
       IN  /\ triggers' = r.triggers
           /\ controllers' = r.controllers
           /\ sent' = r.sent
           /\ hist' = HistAfterReset(hist, r)
           /\ pc' = IF r.raised THEN "cleanup" ELSE "top"
           /\ step' = Step("reset", r.raised)
    /\ UNCHANGED <<file, config, config_mtime, default_device_name, frame_size, now>>

\* run(): a frame was read; _reload_if_changed finds the file not newer.
ReloadNotNeeded ==
    /\ pc = "top"
    /\ NotModified(file.mtime, config_mtime)
    /\ pc' = "process"
    /\ sent' = <<>>
    /\ step' = Step("noreload", FALSE)
    /\ UNCHANGED <<file, config, config_mtime, triggers, default_device_name,
                   controllers, frame_size, now, hist>>

\* run(): a frame was read; _reload_if_changed loads the changed file.
ReloadChanged ==
    /\ pc = "top"
    /\ ~NotModified(file.mtime, config_mtime)
    /\ LET r == Reload(Configs[file.content], triggers, controllers,
                       default_device_name, frame_size)
       IN  /\ config' = file.content
           /\ config_mtime' = file.mtime
           /\ triggers' = r.triggers
           /\ controllers' = r.controllers
           /\ hist' = IF LoadRaises(Configs[file.content]) THEN hist
                      ELSE HistAfterReload(hist, triggers, r.triggers)
           /\ pc' = IF r.raised THEN "cleanup" ELSE "process"
           /\ step' = Step("reload", r.raised)
    /\ sent' = <<>>
    /\ UNCHANGED <<file, default_device_name, frame_size, now>>

\* What process_frame leaves when its loop ended with r at time current_time.
FrameResult(r, current_time) ==
    /\ now' = current_time
    /\ triggers' = r.triggers
    /\ controllers' = r.controllers
    /\ sent' = r.sent
    /\ hist' = HistAfterFrame(hist, triggers, r, current_time)
    /\ pc' = IF r.raised THEN "cleanup" ELSE "key"
    /\ step' = [op |-> "frame", raised |-> r.raised, seen |-> Len(r.conds)]

\* run(): process_frame(frame), at a time not before the last one.
Frame ==
    /\ pc = "process"
    /\ \E gray_frame \in Frames(frame_size[1], frame_size[2]), dt \in 0..MaxDt :
          /\ now + dt <= MaxTime
          /\ FrameResult(ProcessFrame(triggers, gray_frame, now + dt, controllers,
                                     default_device_name),
                         now + dt)
    /\ UNCHANGED <<file, config, config_mtime, default_device_name, frame_size>>

\* run(): cv2.waitKey returns no key (or 'h', which only hides the drawing).
KeyNone ==
    /\ pc = "key"
    /\ pc' = "top"
    /\ sent' = <<>>
    /\ step' = Step("key", FALSE)
    /\ UNCHANGED <<file, config, config_mtime, triggers, default_device_name,
                   controllers, frame_size, now, hist>>

\* run(): 'r': reset_triggers(), reset_first_frame().
KeyReset ==
    /\ pc = "key"
    /\ LET r == ResetTriggers(triggers, controllers, default_device_name)
       IN  /\ triggers' = IF r.raised THEN r.triggers ELSE ResetFirstFrame(r.triggers)
           /\ controllers' = r.controllers
           /\ sent' = r.sent
           /\ hist' = HistAfterReset(hist, r)
           /\ pc' = IF r.raised THEN "cleanup" ELSE "top"
           /\ step' = Step("reset", r.raised)
    /\ UNCHANGED <<file, config, config_mtime, default_device_name, frame_size, now>>

\* run(): 'q' leaves the loop.
KeyQuit ==
    /\ pc = "key"
    /\ pc' = "cleanup"
    /\ sent' = <<>>
    /\ step' = Step("quit", FALSE)
    /\ UNCHANGED <<file, config, config_mtime, triggers, default_device_name,
                   controllers, frame_size, now, hist>>

\* run(): the finally clause, cleanup().
CleanupStep ==
    /\ pc = "cleanup"
    /\ LET r == Cleanup(triggers, controllers, default_device_name)
       IN  /\ controllers' = r.controllers
           /\ sent' = r.sent
           /\ step' = Step("cleanup", r.raised)
    /\ pc' = "exited"
    /\ UNCHANGED <<file, config, config_mtime, triggers, default_device_name,
                   frame_size, now, hist>>

Next ==
    \/ Startup
    \/ WriteFile
    \/ VideoEnded
    \/ ReloadNotNeeded
    \/ ReloadChanged
    \/ Frame
    \/ KeyNone
    \/ KeyReset
    \/ KeyQuit
    \/ CleanupStep

Spec == Init /\ [][Next]_vars

(***************************************************************************)
(* The VideoMIDITrigger object driven through its methods, as a caller of  *)
(* the class may: __init__, then process_frame and reset_first_frame in    *)
(* any order (reset_first_frame alone, without the reset_triggers that     *)
(* run() calls before it).                                                 *)
(***************************************************************************)
\* VideoMIDITrigger.reset_first_frame
CallResetFirstFrame ==
    /\ pc = "key"
    /\ triggers' = ResetFirstFrame(triggers)
    /\ sent' = <<>>
    /\ pc' = "top"
    /\ step' = Step("reset_first_frame", FALSE)
    /\ UNCHANGED <<file, config, config_mtime, default_device_name, controllers,
                   frame_size, now, hist>>

NextMethods ==
    \/ Startup
    \/ ReloadNotNeeded
    \/ Frame
    \/ KeyNone
    \/ CallResetFirstFrame

SpecMethods == Init /\ [][NextMethods]_vars

(***************************************************************************)
(* The reload with a writer at work while it runs.  _load_config reads the *)
(* file's content (562-563) and then, in a second system call, the file's  *)
(* modification time (564); the writer may write between the two.  At      *)
(* "read" the content is loaded in self.config and the time is not yet     *)
(* taken.  The configurations written are ones that load.                  *)
(***************************************************************************)
MaxStamp == 2

RaceConfigs == {1, 2, 3}

InitRace ==
    /\ pc = "start"
    /\ file \in [content : RaceConfigs, mtime : {0}]
    /\ config = 0
    /\ config_mtime = None
    /\ triggers = <<>>
    /\ default_device_name = NoDevice
    /\ controllers = {}
    /\ frame_size = VideoSize
    /\ now = 0
    /\ sent = <<>>
    /\ hist = <<>>
    /\ step = Step("init", FALSE)

\* The writer replaces the file, at any moment of the loop; each write leaves a
\* later modification time.
WriteRacing ==
    /\ pc \in {"top", "read", "process", "key"}
    /\ \E c \in RaceConfigs, m \in (file.mtime + 1)..MaxStamp :
          file' = [content |-> c, mtime |-> m]
    /\ UNCHANGED <<pc, config, config_mtime, triggers, default_device_name,
                   controllers, frame_size, now, sent, hist, step>>

\* _reload_if_changed finds the file newer; _load_config reads its content.
ReadContent ==
    /\ pc = "top"
    /\ ~NotModified(file.mtime, config_mtime)
    /\ config' = file.content
    /\ pc' = "read"
    /\ sent' = <<>>
    /\ step' = Step("read", FALSE)
    /\ UNCHANGED <<file, config_mtime, triggers, default_device_name, controllers,
                   frame_size, now, hist>>

\* _load_config takes the file's modification time and builds the triggers of
\* the content it read; _reload_if_changed goes on to its end.
ReadMtime ==
    /\ pc = "read"
    /\ LET r == Reload(Configs[config], triggers, controllers,
                       default_device_name, frame_size)
       IN  /\ config_mtime' = file.mtime
           /\ triggers' = r.triggers
           /\ controllers' = r.controllers
           /\ hist' = IF LoadRaises(Configs[config]) THEN hist
                      ELSE HistAfterReload(hist, triggers, r.triggers)
           /\ pc' = IF r.raised THEN "cleanup" ELSE "process"
           /\ step' = Step("reload", r.raised)
    /\ sent' = <<>>
    /\ UNCHANGED <<file, config, default_device_name, frame_size, now>>

\* run(): process_frame(frame); the video is dark throughout.
DarkFrame ==
    /\ pc = "process"
    /\ \E gray_frame \in Frames(frame_size[1], frame_size[2]), dt \in 0..MaxDt :
          /\ \A k \in DOMAIN gray_frame.px : gray_frame.px[k] = 0
          /\ now + dt <= MaxTime
          /\ FrameResult(ProcessFrame(triggers, gray_frame, now + dt, controllers,
                                     default_device_name),
                         now + dt)
    /\ UNCHANGED <<file, config, config_mtime, default_device_name, frame_size>>

\* The steps of the program, as against the writer's.
LoopStep ==
    \/ Startup
    \/ ReloadNotNeeded
    \/ ReadContent
    \/ ReadMtime
    \/ DarkFrame
    \/ KeyNone

NextRace ==
    \/ WriteRacing
    \/ LoopStep

\* The program moves on: every step of LoopStep changes pc, the writer's never
\* does, and at each of these positions a step of LoopStep is possible.
LoopMoves ==
    /\ pc \in {"start", "top", "read", "process", "key"}
    /\ pc' \in {"top", "read", "process", "key", "cleanup", "failed"} \ {pc}

\* The loop keeps running (weak fairness of the program's steps, stated on pc);
\* nothing is asked of the writer.
SpecRace == InitRace /\ [][NextRace]_vars /\ WF_pc(LoopMoves)

(***************************************************************************)
(* Frames without end, each at a later time than the one before (time.time *)
(* at 760).  Time is kept in a window of MaxTime: once the clock has        *)
(* reached MaxTime a frame moves every recorded time back instead of moving *)
(* the clock on, and a time that leaves the window stays at its edge.  No   *)
(* debounce or throttle of Configs is longer than MaxTime, so every         *)
(* comparison process_frame makes comes out as with the unbounded clock.    *)
(***************************************************************************)
ClockConfigs == {1, 2, 8, 10}

\* A recorded time seen by back later.
Aged(time, back) == IF time = None THEN None ELSE Max2(time - back, 0)

AgedTriggers(ts, back) ==
    [i \in 1..Len(ts) |->
       [ts[i] EXCEPT !.became_invalid_time = Aged(@, back),
                     !.last_deactivated_time = Aged(@, back)]]

AgedHist(hs, back) ==
    [i \in 1..Len(hs) |->
       [hs[i] EXCEPT !.fsince = Aged(@, back), !.offAt = Aged(@, back)]]

InitClock ==
    /\ pc = "start"
    /\ file \in [content : ClockConfigs, mtime : {0}]
    /\ config = 0
    /\ config_mtime = None
    /\ triggers = <<>>
    /\ default_device_name = NoDevice
    /\ controllers = {}
    /\ frame_size = VideoSize
    /\ now = 0
    /\ sent = <<>>
    /\ hist = <<>>
    /\ step = Step("init", FALSE)

\* What process_frame leaves when its loop ended with r at time current_time,
\* the triggers and the records having been ts and hs when it began.
ClockResult(r, current_time, ts, hs) ==
    /\ now' = current_time
    /\ triggers' = r.triggers
    /\ controllers' = r.controllers
    /\ sent' = r.sent
    /\ hist' = HistAfterFrame(hs, ts, r, current_time)
    /\ pc' = IF r.raised THEN "cleanup" ELSE "key"
    /\ step' = [op |-> "frame", raised |-> r.raised, seen |-> Len(r.conds)]

\* process_frame with the triggers ts and the records hs, at current_time.
ClockProcess(ts, hs, gray_frame, current_time) ==
    ClockResult(ProcessFrame(ts, gray_frame, current_time, controllers,
                             default_device_name),
                current_time, ts, hs)

\* run(): process_frame(frame), at a time later than the last one.
ClockFrame ==
    /\ pc = "process"
    /\ \E gray_frame \in Frames(frame_size[1], frame_size[2]), dt \in 1..MaxDt :
          LET back == Max2(now + dt - MaxTime, 0)
          IN  ClockProcess(AgedTriggers(triggers, back), AgedHist(hist, back),
                           gray_frame, now + dt - back)
    /\ UNCHANGED <<file, config, config_mtime, default_device_name, frame_size>>

NextClock ==
    \/ Startup
    \/ ReloadNotNeeded
    \/ ClockFrame
    \/ KeyNone

\* The loop keeps running: frames keep arriving.
SpecClock == InitClock /\ [][NextClock]_vars /\ WF_pc(LoopMoves)

(***************************************************************************)
(* The reload test for a file whose modification time may be anything:     *)
(* __init__, then writes that leave any content and any time (a copy that  *)
(* keeps an older time, a clock set back), then _reload_if_changed.        *)
(***************************************************************************)
InitStamp ==
    /\ pc = "start"
    /\ file \in [content : ConfigIds, mtime : 0..MaxMtime]
    /\ config = 0
    /\ config_mtime = None
    /\ triggers = <<>>
    /\ default_device_name = NoDevice
    /\ controllers = {}
    /\ frame_size = VideoSize
    /\ now = 0
    /\ sent = <<>>
    /\ hist = <<>>
    /\ step = Step("init", FALSE)

\* Somebody writes the configuration file and leaves it with some time.
WriteAnyTime ==
    /\ pc = "top"
    /\ \E c \in ConfigIds, m \in 0..MaxMtime :
          /\ [content |-> c, mtime |-> m] # file
          /\ file' = [content |-> c, mtime |-> m]
    /\ UNCHANGED <<pc, config, config_mtime, triggers, default_device_name,
                   controllers, frame_size, now, sent, hist, step>>

NextStamp ==
    \/ Startup
    \/ WriteAnyTime
    \/ ReloadNotNeeded
    \/ ReloadChanged

SpecStamp == InitStamp /\ [][NextStamp]_vars

(***************************************************************************)
(* One MIDIManager driven through its own methods.  hist[1] holds what the *)
(* manager does not store:                                                 *)
(*   ports   the ports rtmidi lists                                        *)
(*   opened  the keys for which a MIDIController was made since the last   *)
(*           close_all, in order                                           *)
(*   asked, handle, hit, port   of the last get_controller: its argument,  *)
(*           the key of the controller returned, whether the resolved name *)
(*           was in the map before, and the port it opened ("" for none).  *)
(***************************************************************************)
MaxOpens == 5
RouterPorts == {<<>>, <<"synth">>, <<"piano", "synth">>}
RouterNames == {NoDevice, "", "synth", "Synth", "ghost"}

InitRouter ==
    /\ pc = "router"
    /\ file = [content |-> 0, mtime |-> 0]
    /\ config = 0
    /\ config_mtime = None
    /\ triggers = <<>>
    /\ default_device_name \in RouterNames
    /\ controllers = {}
    /\ frame_size = VideoSize
    /\ now = 0
    /\ sent = <<>>
    /\ hist \in { <<[ports |-> ports, opened |-> <<>>, asked |-> NoDevice,
                     handle |-> NoDevice, hit |-> FALSE, port |-> ""]>> :
                    ports \in RouterPorts }
    /\ step = Step("init", FALSE)

RouterGot(g, device_name) ==
    /\ controllers' = g.controllers
    /\ hist' = <<[hist[1] EXCEPT
                    !.opened = IF g.opened THEN Append(@, g.handle) ELSE @,
                    !.asked = device_name,
                    !.handle = g.handle,
                    !.hit = g.handle \in controllers,
                    !.port = IF g.opened THEN ConnectedPort(hist[1].ports, g.handle)
                             ELSE ""]>>
    /\ step' = Step("get_controller", g.raised)

\* MIDIManager.get_controller
RouterGet ==
    /\ pc = "router"
    /\ Len(hist[1].opened) < MaxOpens
    /\ \E device_name \in RouterNames :
          RouterGot(GetControllerAt(hist[1].ports, controllers, default_device_name,
                                    device_name),
                    device_name)
    /\ UNCHANGED <<pc, file, config, config_mtime, triggers, default_device_name,
                   frame_size, now, sent>>

\* MIDIManager.close_all
RouterCloseAll ==
    /\ pc = "router"
    /\ controllers' = {}
    /\ hist' = <<[hist[1] EXCEPT !.opened = <<>>, !.port = ""]>>
    /\ step' = Step("close_all", FALSE)
    /\ UNCHANGED <<pc, file, config, config_mtime, triggers, default_device_name,
                   frame_size, now, sent>>

NextRouter ==
    \/ RouterGet
    \/ RouterCloseAll

SpecRouter == InitRouter /\ [][NextRouter]_vars

(***************************************************************************)
(* get_velocity on one trigger, for the velocity configurations that       *)
(* Trigger.__init__ accepts and the detected values check_trigger may      *)
(* leave.  hist[1] holds the detected value and the result of the last     *)
(* call (called: there was one).                                           *)
(***************************************************************************)
VelocityAnchors == {0, 100, 200}
VelocityNumbers == {<<0, 1>>, <<20, 1>>, <<253, 4>>, <<127, 2>>, <<127, 1>>, <<128, 1>>}
DetectedValues == {<<0, 1>>, <<1, 3>>, <<50, 1>>, <<100, 1>>, <<150, 1>>, <<200, 1>>,
                   <<255, 1>>}
VelocityEntries ==
    { [DoorA EXCEPT !.midi.velocity = AnchoredVelocity(d0, q0, d1, q1)] :
        d0 \in VelocityAnchors, q0 \in VelocityNumbers,
        d1 \in VelocityAnchors, q1 \in VelocityNumbers }
NoDefaults == [debounce |-> None, throttle |-> None]

InitVelocity ==
    /\ pc = "velocity"
    /\ file = [content |-> 0, mtime |-> 0]
    /\ config = 0
    /\ config_mtime = None
    /\ triggers \in { <<NewTrigger(e, NoDefaults)>> :
                        e \in { e \in VelocityEntries : TriggerValid(e, NoDefaults) } }
    /\ default_device_name = NoDevice
    /\ controllers = {}
    /\ frame_size = VideoSize
    /\ now = 0
    /\ sent = <<>>
    /\ hist = <<[detected |-> Zero, result |-> Zero, called |-> FALSE]>>
    /\ step = Step("init", FALSE)

\* Trigger.get_velocity, with the detected_value a check_trigger has left.
VelocityCall ==
    /\ pc = "velocity"
    /\ \E q \in DetectedValues :
          /\ triggers' = <<[triggers[1] EXCEPT !.detected_value = q]>>
          /\ hist' = <<[detected |-> q,
                        result |-> GetVelocity([triggers[1] EXCEPT !.detected_value = q]),
                        called |-> TRUE]>>
    /\ step' = Step("get_velocity", FALSE)
    /\ UNCHANGED <<pc, file, config, config_mtime, default_device_name, controllers,
                   frame_size, now, sent>>

NextVelocity == VelocityCall

SpecVelocity == InitVelocity /\ [][NextVelocity]_vars

(***************************************************************************)
(* check_trigger on one continuous trigger whose region is the whole of a  *)
(* frame of one row and two pixels, for the ranges Trigger.__init__        *)
(* accepts.  hist[1] holds the sample and the result of the last call, and *)
(* mapped: the call went through the range mapping.                        *)
(***************************************************************************)
RangeEnds == {0, 90, 200, 255}
RangePixels == {0, 90, 255}
RangeSize == <<1, 2>>
RangeFrames ==
    { [h |-> RangeSize[1], w |-> RangeSize[2], px |-> p] :
        p \in [1..(RangeSize[1] * RangeSize[2]) -> RangePixels] }
Full == Position(0, 0, 100, 100)
RangeEntries ==
    { Entry("Level", Full, type, None, mn, mx, CCMidi(1, 0), NoDevice, None, None) :
        type \in ContinuousTypes, mn \in RangeEnds, mx \in RangeEnds }

InitRange ==
    /\ pc = "range"
    /\ file = [content |-> 0, mtime |-> 0]
    /\ config = 0
    /\ config_mtime = None
    /\ triggers \in { <<SetupRoi(NewTrigger(e, NoDefaults), RangeSize[1], RangeSize[2])>> :
                        e \in { e \in RangeEntries : TriggerValid(e, NoDefaults) } }
    /\ default_device_name = NoDevice
    /\ controllers = {}
    /\ frame_size = RangeSize
    /\ now = 0
    /\ sent = <<>>
    /\ hist = <<[sample |-> NoRoi, result |-> 0, mapped |-> FALSE]>>
    /\ step = Step("init", FALSE)

RangeChecked(r, t, gray_frame) ==
    /\ triggers' = <<r.t>>
    /\ hist' = <<[sample |-> CurrentRoi(t, gray_frame),
                  result |-> r.result,
                  mapped |-> (t.trigger_type = "range"
                              \/ BaselineCompares(t, CurrentRoi(t, gray_frame)))]>>

\* Trigger.check_trigger, for a range or a difference range trigger
RangeCheck ==
    /\ pc = "range"
    /\ \E gray_frame \in RangeFrames :
          RangeChecked(CheckTrigger(triggers[1], gray_frame), triggers[1], gray_frame)
    /\ step' = Step("check_trigger", FALSE)
    /\ UNCHANGED <<pc, file, config, config_mtime, default_device_name, controllers,
                   frame_size, now, sent>>

\* The lines of reset_first_frame for the trigger.
RangeResetFirstFrame ==
    /\ pc = "range"
    /\ triggers' = ResetFirstFrame(triggers)
    /\ step' = Step("reset_first_frame", FALSE)
    /\ UNCHANGED <<pc, file, config, config_mtime, default_device_name, controllers,
                   frame_size, now, sent, hist>>

NextRange ==
    \/ RangeCheck
    \/ RangeResetFirstFrame

SpecRange == InitRange /\ [][NextRange]_vars

(***************************************************************************)
(* setup_roi on one trigger, for the positions Trigger.__init__ accepts    *)
(* and frames of several sizes.                                            *)
(***************************************************************************)
RegionOrigins == {0, 50, 100}
RegionExtents == {0, 10, 50, 100}
RegionLengths == {1, 2, 10}
RegionEntries ==
    { [Move EXCEPT !.position = Position(x, y, w, h)] :
        x \in RegionOrigins, y \in RegionOrigins,
        w \in RegionExtents, h \in RegionExtents }

InitRegion ==
    /\ pc = "region"
    /\ file = [content |-> 0, mtime |-> 0]
    /\ config = 0
    /\ config_mtime = None
    /\ triggers \in { <<NewTrigger(e, NoDefaults)>> :
                        e \in { e \in RegionEntries : TriggerValid(e, NoDefaults) } }
    /\ default_device_name = NoDevice
    /\ controllers = {}
    /\ frame_size = VideoSize
    /\ now = 0
    /\ sent = <<>>
    /\ hist = <<>>
    /\ step = Step("init", FALSE)

\* Trigger.setup_roi
RegionSetupRoi ==
    /\ pc = "region"
    /\ \E frame_height \in RegionLengths, frame_width \in RegionLengths :
          /\ triggers' = <<SetupRoi(triggers[1], frame_height, frame_width)>>
          /\ frame_size' = <<frame_height, frame_width>>
          /\ step' = Step("setup_roi", SetupRoiRaises(triggers[1], frame_height, frame_width))
    /\ UNCHANGED <<pc, file, config, config_mtime, default_device_name, controllers,
                   now, sent, hist>>

NextRegion == RegionSetupRoi

SpecRegion == InitRegion /\ [][NextRegion]_vars

(***************************************************************************)
(* Trigger.__init__ on the entries of a parsed file, with notes as they    *)
(* may be written.  A written note is [kind, letter, accidental, octave,   *)
(* value]: a YAML number ("number": value), a string of digits ("digits":  *)
(* value is int(text)), a note name ("name": letter, accidental "#", "b"   *)
(* or "", octave or None), a string that is neither ("junk"), or no 'note' *)
(* key ("absent").  file.content is the value yaml.safe_load returned,     *)
(* config what self.config holds now; both are lists of one entry.         *)
(***************************************************************************)
Note(kind, letter, accidental, octave, value) ==
    [kind |-> kind, letter |-> letter, accidental |-> accidental, octave |-> octave,
     value |-> value]

\* parse_midi_note: [raised, value]
ParseMidiNote(note) ==
    LET semitone == CASE note.letter \in {"C", "c"} -> 0
                      [] note.letter \in {"D", "d"} -> 2
                      [] note.letter \in {"E", "e"} -> 4
                      [] note.letter \in {"F", "f"} -> 5
                      [] note.letter \in {"G", "g"} -> 7
                      [] note.letter \in {"A", "a"} -> 9
                      [] OTHER -> 11
        shift == IF note.accidental = "#" THEN 1
                 ELSE IF note.accidental = "b" THEN 0 - 1 ELSE 0
        octave == IF note.octave = None THEN 4 ELSE note.octave
    IN  CASE note.kind = "name" ->
               [raised |-> FALSE, value |-> (octave + 1) * 12 + semitone + shift]
          [] note.kind = "junk" -> [raised |-> TRUE, value |-> None]
          [] OTHER -> [raised |-> FALSE, value |-> note.value]

WrittenNotes ==
    { Note("number", "", "", None, 60), Note("number", "", "", None, 128),
      Note("digits", "", "", None, 60), Note("name", "C", "", None, None),
      Note("name", "d", "b", 3, None), Note("name", "G", "", 9, None),
      Note("name", "A", "#", 9, None), Note("junk", "", "", None, None),
      Note("absent", "", "", None, None) }

WrittenEntries ==
    { Entry("Door", Left, type, threshold, mn, mx,
            [note |-> note, velocity |-> FixedVelocity(100), channel |-> 0,
             cc |-> IF type \in ContinuousTypes THEN 7 ELSE None],
            NoDevice, None, None) :
        type \in {"brightness", "motion", "range"}, threshold \in {None, 100},
        mn \in {None, 0}, mx \in {None, 200},
        note \in WrittenNotes }

\* The entry with the note Trigger.__init__ works with: the parsed one for a
\* binary mode, the one given (here none) for a continuous mode.
Parsed(e) ==
    [e EXCEPT !.midi.note =
        IF e.type \in ContinuousTypes \/ @.kind = "absent" THEN None
        ELSE ParseMidiNote(@).value]

\* Trigger.__init__ raises.
ConstructRaises(e) ==
    \/ e.type \in BinaryTypes /\ ParseMidiNote(e.midi.note).raised
    \/ ~TriggerValid(Parsed(e), NoDefaults)

\* The entry's dictionary after Trigger.__init__: self.midi_config is
\* config['midi'] itself, and midi_config['note'] is assigned the parsed note
\* once the checks before that line have passed.
Constructed(e) ==
    IF /\ e.type \in BinaryTypes
       /\ e.midi.note.kind \notin {"absent", "junk"}
       /\ TriggerValid([e EXCEPT !.midi.note = 60], NoDefaults)
    THEN [e EXCEPT !.midi.note =
            IF @.kind = "number" THEN @
            ELSE Note("number", "", "", None, ParseMidiNote(@).value)]
    ELSE e

InitLoad ==
    /\ pc = "written"
    /\ file \in [content : { <<e>> : e \in { e \in WrittenEntries :
                                              e.type \in ContinuousTypes
                                                 => e.midi.note.kind = "absent" } },
                 mtime : {0}]
    /\ config = <<>>
    /\ config_mtime = None
    /\ triggers = <<>>
    /\ default_device_name = NoDevice
    /\ controllers = {}
    /\ frame_size = VideoSize
    /\ now = 0
    /\ sent = <<>>
    /\ hist = <<>>
    /\ step = Step("init", FALSE)

\* _load_config and the setup of the regions: self.config is assigned the
\* parsed value, then the entries are handed to Trigger.__init__.
LoadWritten ==
    /\ pc = "written"
    /\ config' = <<Constructed(file.content[1])>>
    /\ config_mtime' = file.mtime
    /\ triggers' = IF ConstructRaises(file.content[1]) THEN <<>>
                   ELSE SetupAll(<<NewTrigger(Parsed(file.content[1]), NoDefaults)>>,
                                 VideoSize).triggers
    /\ pc' = IF ConstructRaises(file.content[1]) THEN "failed" ELSE "process"
    /\ step' = Step("load", ConstructRaises(file.content[1]))
    /\ UNCHANGED <<file, default_device_name, controllers, frame_size, now, sent, hist>>

FrameLoaded(r) ==
    /\ triggers' = r.triggers
    /\ controllers' = r.controllers
    /\ sent' = r.sent
    /\ step' = [op |-> "frame", raised |-> r.raised, seen |-> Len(r.conds)]

\* process_frame
ProcessLoaded ==
    /\ pc = "process"
    /\ \E gray_frame \in Frames(frame_size[1], frame_size[2]) :
          FrameLoaded(ProcessFrame(triggers, gray_frame, now, controllers,
                                   default_device_name))
    /\ UNCHANGED <<pc, file, config, config_mtime, default_device_name, frame_size,
                   now, hist>>

NextLoad ==
    \/ LoadWritten
    \/ ProcessLoaded

SpecLoad == InitLoad /\ [][NextLoad]_vars

(***************************************************************************)
(* One Trigger object driven through its own methods, as a caller of the   *)
(* class may: setup_roi for frames of any size, check_trigger with frames  *)
(* of any size, and the clearing reset_triggers does.  triggers holds the  *)
(* object; hist[1] records the calls of check_trigger made with a region:  *)
(*   shape   the shape of the sample of the last such call (NoShape: none) *)
(*   sample  the sample of the last call                                   *)
(*   result  what the last call returned                                   *)
(*   warm    "first" when the last call was the first one, "resized" when  *)
(*           its sample had another shape than the one before, else "no".  *)
(***************************************************************************)
NoShape == <<>>
UnitSizes == {<<1, 1>>, <<1, 2>>, <<2, 2>>}
UnitFrames == UNION { Frames(size[1], size[2]) : size \in UnitSizes }
UnitEntries == {Move, [Move EXCEPT !.threshold = 0], [DriftA EXCEPT !.position = Left]}
UnitFresh == [shape |-> NoShape, sample |-> NoRoi, result |-> FALSE, warm |-> "no"]

InitTrigger ==
    /\ pc = "unit"
    /\ file = [content |-> 0, mtime |-> 0]
    /\ config = 0
    /\ config_mtime = None
    /\ triggers \in { <<NewTrigger(e, [debounce |-> None, throttle |-> None])>> :
                        e \in UnitEntries }
    /\ default_device_name = NoDevice
    /\ controllers = {}
    /\ frame_size = VideoSize
    /\ now = 0
    /\ sent = <<>>
    /\ hist = <<UnitFresh>>
    /\ step = Step("init", FALSE)

\* Trigger.setup_roi
UnitSetupRoi ==
    /\ pc = "unit"
    /\ \E size \in UnitSizes :
          /\ triggers' = <<SetupRoi(triggers[1], size[1], size[2])>>
          /\ frame_size' = size
          /\ step' = Step("setup_roi", SetupRoiRaises(triggers[1], size[1], size[2]))
    /\ UNCHANGED <<pc, file, config, config_mtime, default_device_name, controllers,
                   now, sent, hist>>

\* Trigger.check_trigger
UnitCheck ==
    /\ pc = "unit"
    /\ \E gray_frame \in UnitFrames :
          LET t == triggers[1]
              r == CheckTrigger(t, gray_frame)
              sample == CurrentRoi(t, gray_frame)
          IN  /\ triggers' = <<r.t>>
              /\ hist' = IF t.roi_coords = NoCoords THEN hist
                         ELSE <<[shape |-> Shape(sample), sample |-> sample,
                                 result |-> r.result,
                                 warm |-> IF hist[1].shape = NoShape THEN "first"
                                          ELSE IF hist[1].shape # Shape(sample)
                                          THEN "resized" ELSE "no"]>>
    /\ step' = Step("check_trigger", FALSE)
    /\ UNCHANGED <<pc, file, config, config_mtime, default_device_name, controllers,
                   frame_size, now, sent>>

\* The lines of reset_triggers for one trigger.
UnitReset ==
    /\ pc = "unit"
    /\ triggers' = <<ResetTrigger(triggers[1], controllers, default_device_name).t>>
    /\ step' = Step("reset", FALSE)
    /\ UNCHANGED <<pc, file, config, config_mtime, default_device_name, controllers,
                   frame_size, now, sent, hist>>

NextTrigger ==
    \/ UnitSetupRoi
    \/ UnitCheck
    \/ UnitReset

SpecTrigger == InitTrigger /\ [][NextTrigger]_vars

(***************************************************************************)
(* Properties.                                                             *)
(***************************************************************************)
Binary(i) == triggers[i].trigger_type \in BinaryTypes
Places == 1..Len(triggers)

ReloadedOk == step.op = "reload" /\ ~step.raised
ReloadFailed == step.op = "reload" /\ step.raised
ResetReturned == step.op = "reset" /\ ~step.raised
FrameDone == step.op = "frame"

\* Steps of the process, as actions.
ReloadSucceeds == ReloadChanged /\ ~step'.raised
ReloadFails == ReloadChanged /\ step'.raised
ResetReturns == (VideoEnded \/ KeyReset) /\ ~step'.raised

SameTiming(a, b) ==
    /\ a.active = b.active
    /\ a.became_invalid_time = b.became_invalid_time
    /\ a.last_deactivated_time = b.last_deactivated_time

\* C1, as stated: whatever frames, reloads and resets come, a binary-mode
\* trigger sends at most one Note On in a run of frames with a true condition
\* and at most one Note Off in a run of frames with a false condition.
C1_OneEventPerRun ==
    \A i \in Places : Binary(i) => hist[i].n <= 1

\* C1, amended: the same, for a run during which no reset happened and no reload
\* restored the trigger from a list that held its name twice.
C1_OneEventPerCalmRun ==
    \A i \in Places : Binary(i) /\ hist[i].calm => hist[i].n <= 1

\* C1's case: a frame that goes on with a run of true conditions in which the
\* Note On has been sent, and sends nothing.
C1_Witness ==
    /\ FrameDone
    /\ \E i \in Places :
          /\ Binary(i) /\ hist[i].cond = "T" /\ hist[i].calm /\ hist[i].n = 1
          /\ triggers[i].active
          /\ Count(sent, "on", i) = 0

\* C2: for a binary-mode trigger of debounce d > 0 that is active and whose
\* condition turned false at the frame of time t1 after a frame that found it
\* true, every following frame that finds the condition false at a time
\* < t1 + d, and the frame that finds it true again, sends no Note Off for it
\* and leaves it active.
C2_DebounceHolds ==
    [][ Frame =>
          \A i \in Places :
             (/\ Binary(i) /\ triggers[i].debounce > 0 /\ triggers[i].active
              /\ \/ hist'[i].cond = "T"
                 \/ /\ hist'[i].fsince # None
                    /\ now' < hist'[i].fsince + triggers[i].debounce)
             => triggers'[i].active /\ Count(sent', "off", i) = 0 ]_vars

\* C2's case: time has passed since the condition turned false, less than the
\* debounce, and the last frame still found the condition false.
C2_Witness ==
    /\ FrameDone
    /\ \E i \in Places :
          /\ Binary(i) /\ triggers[i].debounce > 0
          /\ hist[i].fsince # None /\ hist[i].fsince < now
          /\ now < hist[i].fsince + triggers[i].debounce
          /\ triggers[i].active

\* C3, as stated: after process_frame deactivated a trigger of throttle r > 0 at
\* time t0, no frame at a time t with t - t0 < r sends a Note On for it, whatever
\* frames and reloads that keep its name came in between.
C3_NoOnWithinThrottle ==
    FrameDone =>
       \A k \in 1..Len(sent) :
          sent[k].kind = "on" =>
             LET h == hist[sent[k].idx]
             IN  ~(h.offAt # None /\ h.offThr > 0 /\ now - h.offAt < h.offThr)

\* C3, amended: r is the throttle the trigger has at the frame, and no reload
\* since t0 restored the trigger from a list that held its name twice.
C3_NoOnWithinCurrentThrottle ==
    FrameDone =>
       \A k \in 1..Len(sent) :
          sent[k].kind = "on" =>
             LET h == hist[sent[k].idx]
                 t == triggers[sent[k].idx]
             IN  ~(h.offAt # None /\ h.offOk /\ t.throttle > 0
                   /\ now - h.offAt < t.throttle)

\* C3's case: the configuration has been reloaded, and a frame finds the
\* condition true within the throttle of a deactivation and does not activate.
C3_Witness ==
    /\ FrameDone
    /\ config_mtime > 0
    /\ \E i \in Places :
          /\ Binary(i) /\ triggers[i].throttle > 0
          /\ hist[i].cond = "T" /\ hist[i].offAt # None /\ hist[i].offOk
          /\ now - hist[i].offAt < triggers[i].throttle
          /\ ~triggers[i].active

\* C4, as stated: after a successful reload a trigger has the active,
\* became_invalid_time and last_deactivated_time of every trigger of the old
\* list that has its name.
C4_RestoredFromEveryNamesake ==
    [][ ReloadSucceeds =>
          \A j \in 1..Len(triggers') : \A i \in 1..Len(triggers) :
             triggers[i].name = triggers'[j].name
                => SameTiming(triggers'[j], triggers[i]) ]_vars

\* C4, amended: ... of the last trigger of the old list that has its name (the
\* only one when the names of the old list are distinct).
C4_RestoredFromLastNamesake ==
    [][ ReloadSucceeds =>
          \A j \in 1..Len(triggers') : \A i \in 1..Len(triggers) :
             (/\ triggers[i].name = triggers'[j].name
              /\ \A k \in (i + 1)..Len(triggers) : triggers[k].name # triggers'[j].name)
                => SameTiming(triggers'[j], triggers[i]) ]_vars

\* C4's case: a reload has restored a trigger that is active in the middle of
\* its debounce, to a changed configuration.
C4_Witness ==
    /\ ReloadedOk
    /\ config # 1
    /\ \E j \in Places :
          /\ triggers[j].name = "Door"
          /\ triggers[j].active
          /\ triggers[j].became_invalid_time # None

\* C5: a reload that fails leaves the trigger list, the stored configuration
\* and the connection map as they were before _reload_if_changed was called.
C5_FailedReloadChangesNothing ==
    [][ ReloadFails => UNCHANGED <<triggers, config, controllers>> ]_vars

\* C6: an error raised during a reload does not end the frame loop:
\* process_frame is called next.
C6_FailedReloadGoesOn ==
    ReloadFailed => pc = "process"

\* C7: the baseline of a difference or difference range trigger, once taken,
\* stays the same sample through every frame and through every reload that
\* keeps the trigger's name, mode family and region.
C7_BaselineKept ==
    [][ /\ Frame =>
            \A i \in Places :
               (triggers[i].trigger_type \in {"difference", "difference range"}
                  /\ triggers[i].first_roi # NoRoi)
               => triggers'[i].first_roi = triggers[i].first_roi
        /\ ReloadSucceeds =>
            \A j \in 1..Len(triggers') : \A i \in Places :
               (/\ triggers[i].name = triggers'[j].name
                /\ triggers[i].trigger_type \in {"difference", "difference range"}
                /\ triggers'[j].trigger_type \in {"difference", "difference range"}
                /\ triggers[i].roi_coords = triggers'[j].roi_coords
                /\ triggers[i].first_roi # NoRoi)
               => triggers'[j].first_roi = triggers[i].first_roi ]_vars

\* C8: no control message of a continuous-mode trigger carries the value of
\* the control message sent before it for that trigger.
C8_NoRepeatedControlValue ==
    \A i \in Places : ~hist[i].ccRep

\* C9: a call of check_trigger on a motion trigger that has a region leaves the
\* sample of the call as the reference, and when the call is the first one, or
\* its sample has another shape than the sample of the call before, it returns
\* False and leaves detected_value 0, whatever the threshold.
C9_MotionWarmUp ==
    [][ (UnitCheck /\ triggers[1].trigger_type = "motion"
           /\ triggers[1].roi_coords # NoCoords) =>
          /\ triggers'[1].previous_roi = hist'[1].sample
          /\ hist'[1].warm # "no" =>
                /\ hist'[1].result = FALSE
                /\ triggers'[1].detected_value = Zero ]_vars

\* C9's case: a motion trigger of threshold 0 has been called with a sample of
\* another shape than the one before, and returned False.
C9_Witness ==
    /\ step.op = "check_trigger"
    /\ triggers[1].trigger_type = "motion"
    /\ triggers[1].threshold = 0
    /\ hist[1].warm = "resized"
    /\ hist[1].result = FALSE
    /\ triggers[1].previous_roi = hist[1].sample

\* C10, as stated: after reset_triggers returned every trigger is inactive, has
\* no timing state and no reference sample, and one Note Off was sent for each
\* trigger that was active and none for the others.
C10_ResetLeavesAllInactive ==
    [][ ResetReturns =>
          \A i \in Places :
             /\ ~triggers'[i].active
             /\ triggers'[i].became_invalid_time = None
             /\ triggers'[i].last_deactivated_time = None
             /\ triggers'[i].previous_roi = NoRoi
             /\ triggers'[i].first_roi = NoRoi
             /\ Count(sent', "off", i) = IF triggers[i].active THEN 1 ELSE 0 ]_vars

\* C10, amended: that holds of every trigger whose midi mapping has a note
\* (every binary-mode trigger has one); a trigger without a note (a continuous
\* one mapped to a control number only) gets no message and keeps its active
\* flag, and loses its timing state and reference sample like the others.
C10_ResetLeavesNotedInactive ==
    [][ ResetReturns =>
          \A i \in Places :
             /\ triggers'[i].became_invalid_time = None
             /\ triggers'[i].last_deactivated_time = None
             /\ triggers'[i].previous_roi = NoRoi
             /\ triggers'[i].first_roi = NoRoi
             /\ HasNote(triggers[i]) =>
                   /\ ~triggers'[i].active
                   /\ Count(sent', "off", i) = IF triggers[i].active THEN 1 ELSE 0
             /\ ~HasNote(triggers[i]) =>
                   /\ triggers'[i].active = triggers[i].active
                   /\ Count(sent', "off", i) = 0
             /\ Count(sent', "on", i) = 0 /\ Count(sent', "cc", i) = 0 ]_vars

\* C10's case: a reset has returned that sent one Note Off, for a list of two
\* triggers with a difference trigger in it.
C10_Witness ==
    /\ ResetReturned
    /\ Len(sent) = 1
    /\ Len(triggers) = 2
    /\ \E i \in Places : triggers[i].trigger_type = "difference"

\* C11: _reload_if_changed loads the file exactly when its modification time
\* differs from the one recorded at the last load, be it greater or smaller.
C11_ReloadsWhenMarkerDiffers ==
    [][ /\ ReloadNotNeeded => file.mtime = config_mtime
        /\ ReloadChanged => file.mtime # config_mtime ]_vars

\* C12, as stated: when the old list holds a name twice, a new trigger of that
\* name gets the active, became_invalid_time and last_deactivated_time of the
\* first old trigger of the name.
C12_FirstMatchWins ==
    [][ ReloadSucceeds =>
          \A j \in 1..Len(triggers') : \A i, k \in 1..Len(triggers) :
             (/\ i < k
              /\ triggers[i].name = triggers'[j].name
              /\ triggers[k].name = triggers'[j].name
              /\ \A m \in 1..(i - 1) : triggers[m].name # triggers'[j].name)
                => SameTiming(triggers'[j], triggers[i]) ]_vars

\* C12, amended: it gets those of the last old trigger of the name.
C12_LastMatchWins ==
    [][ ReloadSucceeds =>
          \A j \in 1..Len(triggers') : \A i, k \in 1..Len(triggers) :
             (/\ i < k
              /\ triggers[i].name = triggers'[j].name
              /\ triggers[k].name = triggers'[j].name
              /\ \A m \in (k + 1)..Len(triggers) : triggers[m].name # triggers'[j].name)
                => SameTiming(triggers'[j], triggers[k]) ]_vars

\* C12's case: a reload from a list that held a name twice has restored an
\* active trigger of that name.
C12_Witness ==
    /\ ReloadedOk
    /\ \E j \in Places : ~hist[j].offOk /\ triggers[j].active

\* C13: after a successful reload the list holds the triggers of the new
\* configuration, one for each entry and in their order, and a trigger whose
\* name is not in the old list is inactive, has no reference sample, no last
\* control value and no timing state.
C13_ListIsNewConfiguration ==
    [][ ReloadSucceeds =>
          LET entries == Configs[file.content].triggers
          IN  /\ Len(triggers') = Len(entries)
              /\ \A j \in 1..Len(triggers') :
                    /\ triggers'[j].name = entries[j].name
                    /\ triggers'[j].trigger_type = entries[j].type
                    /\ triggers'[j].midi_config = entries[j].midi
                    /\ (\A i \in 1..Len(triggers) : triggers[i].name # entries[j].name)
                       => /\ ~triggers'[j].active
                          /\ triggers'[j].previous_roi = NoRoi
                          /\ triggers'[j].first_roi = NoRoi
                          /\ triggers'[j].last_cc_value = None
                          /\ triggers'[j].became_invalid_time = None
                          /\ triggers'[j].last_deactivated_time = None ]_vars

\* C13's case: a reload has replaced a list in which Door had been deactivated
\* under a throttle by the list of configuration 2, whose Level is new.
C13_Witness ==
    /\ ReloadedOk
    /\ config = 2
    /\ Len(triggers) = 2
    /\ hist[1].offThr > 0
    /\ triggers[2].name = "Level"
    /\ hist[2] = HistFresh

\* C14: between two close_all calls a MIDIController is made at most once for
\* each resolved name; a call whose resolved name is in the map makes none and
\* returns the controller under that name; and a call with no name returns the
\* controller under the default name, as a call that gives that name does.
C14_OneConnectionPerName ==
    LET h == hist[1]
    IN  /\ \A k1, k2 \in 1..Len(h.opened) : k1 # k2 => h.opened[k1] # h.opened[k2]
        /\ \A k \in 1..Len(h.opened) : h.opened[k] \in controllers
        /\ (step.op = "get_controller" /\ ~step.raised) =>
              /\ h.handle = (IF h.asked = NoDevice THEN default_device_name ELSE h.asked)
              /\ h.handle \in controllers
              /\ h.hit => h.port = ""

\* C14's case: a call with no name has returned the controller that a call
\* naming the default device had opened, with another connection open too.
C14_Witness ==
    /\ step.op = "get_controller" /\ ~step.raised
    /\ hist[1].asked = NoDevice
    /\ default_device_name = "synth"
    /\ hist[1].hit
    /\ hist[1].opened = <<"Synth", "synth">>

\* C15, as stated: a connection for a given name that is not among the ports
\* raises and leaves no entry for the name in the map; a connection for no
\* name and no default device never raises, and opens a virtual port when
\* there is no port.
C15_UnknownNameRaises ==
    LET h == hist[1]
        listed == { h.ports[k] : k \in 1..Len(h.ports) }
    IN  (step.op = "get_controller" /\ ~h.hit) =>
           /\ (h.asked # NoDevice /\ h.asked \notin listed)
                 => step.raised /\ h.asked \notin controllers
           /\ (h.asked = NoDevice /\ default_device_name = NoDevice)
                 => ~step.raised /\ (h.ports = <<>> => h.port = VirtualPort)

\* C15, amended: the name is the resolved one (the name given, else the default
\* device), is not empty, and is no port's name even when both are lower-cased;
\* with no name or an empty one the connection never raises: it opens the first
\* port, or a virtual port when there is none.
C15_UnmatchedNameRaises ==
    LET h == hist[1]
        resolved == IF h.asked = NoDevice THEN default_device_name ELSE h.asked
        matched == \E k \in 1..Len(h.ports) :
                      h.ports[k] = resolved \/ Lower(h.ports[k]) = Lower(resolved)
    IN  (step.op = "get_controller" /\ ~h.hit) =>
           /\ (resolved \notin {NoDevice, ""} /\ ~matched)
                 => step.raised /\ resolved \notin controllers /\ h.port = ""
           /\ (resolved \notin {NoDevice, ""} /\ matched)
                 => ~step.raised /\ resolved \in controllers
           /\ resolved \in {NoDevice, ""}
                 => /\ ~step.raised
                    /\ h.port = (IF h.ports = <<>> THEN VirtualPort ELSE h.ports[1])

\* C15's case: a call for a name that matches none of the ports has raised.
C15_Witness ==
    /\ step.op = "get_controller" /\ step.raised
    /\ hist[1].asked = "ghost"
    /\ hist[1].ports = <<"piano", "synth">>
    /\ "ghost" \notin controllers
    /\ controllers # {}

\* Numbers as rationals <<n, d>>, d > 0.
Whole(q) == q[1] % q[2] = 0
Leq(a, b) == a[1] * b[2] <= b[1] * a[2]

\* Two calls in a row, the second with a detected value not below the first's,
\* return velocities in the order of the anchors' velocities.
InOrder(v, h1, h2) ==
    (h1.called /\ Leq(h1.detected, h2.detected)) =>
       /\ Leq(v.min_value, v.max_value) => Leq(h1.result, h2.result)
       /\ Leq(v.max_value, v.min_value) => Leq(h2.result, h1.result)

MappedValue(t, sample) ==
    IF t.trigger_type = "range" THEN Mean(sample) ELSE MeanAbsDiff(sample, t.first_roi)

\* clip(q, lo, hi) for a rational q and integers lo <= hi
Clip(q, lo, hi) ==
    IF q[1] < lo * q[2] THEN <<lo, 1>> ELSE IF q[1] > hi * q[2] THEN <<hi, 1>> ELSE q

\* C17: a call of check_trigger that maps a value through the range leaves
\* the level (clip(value, min(range_min, range_max), max(range_min, range_max))
\* - range_min) / (range_max - range_min), or 0 when the two are equal; the
\* level lies in [0, 1]; and the call returns round(level * 127), in 0..127.
C17_RangeMapping ==
    [][ (RangeCheck /\ hist'[1].mapped) =>
          LET t == triggers[1]
              level == triggers'[1].range_level
              result == hist'[1].result
              c == Clip(MappedValue(t, hist'[1].sample),
                        Min2(t.range_min, t.range_max), Max2(t.range_min, t.range_max))
          IN  /\ ~step'.raised
              /\ level[2] > 0
              /\ IF t.range_min = t.range_max THEN level[1] = 0
                 ELSE level[1] * (t.range_max - t.range_min) * c[2]
                         = (c[1] - t.range_min * c[2]) * level[2]
              /\ 0 <= level[1] /\ level[1] <= level[2]
              /\ result = Round(level[1] * 127, level[2])
              /\ result \in 0..127 ]_vars

\* C17's case: with range_min above range_max a mean strictly between the two
\* has been mapped to a value strictly between 0 and 127, nearer to 127 as the
\* mean is nearer to range_max.
C17_Witness ==
    /\ step.op = "check_trigger"
    /\ hist[1].mapped
    /\ triggers[1].trigger_type = "range"
    /\ triggers[1].range_min = 200 /\ triggers[1].range_max = 0
    /\ Mean(hist[1].sample) = <<90, 2>>
    /\ hist[1].result = 98

\* C18: setup_roi either raises and leaves roi_coords as it was, or sets it to
\* (x, y, w, h) with w > 0, h > 0, 0 <= x, 0 <= y, x + w <= frame_width and
\* y + h <= frame_height; it raises only when the region cut to the frame has
\* no extent, and a region of some extent that overflows the frame is cut to
\* the frame's edge.
C18_RegionWithinFrame ==
    [][ RegionSetupRoi =>
          LET p == triggers[1].position
              frame_height == frame_size'[1]
              frame_width == frame_size'[2]
              x == (frame_width * p.x) \div 100
              y == (frame_height * p.y) \div 100
              w == (frame_width * p.width) \div 100
              h == (frame_height * p.height) \div 100
              roi == triggers'[1].roi_coords
          IN  /\ step'.raised => roi = triggers[1].roi_coords
              /\ step'.raised <=> (Min2(w, frame_width - x) <= 0
                                   \/ Min2(h, frame_height - y) <= 0)
              /\ ~step'.raised =>
                    /\ roi = <<x, y, Min2(w, frame_width - x), Min2(h, frame_height - y)>>
                    /\ roi[3] > 0 /\ roi[4] > 0 /\ 0 <= roi[1] /\ 0 <= roi[2]
                    /\ roi[1] + roi[3] <= frame_width
                    /\ roi[2] + roi[4] <= frame_height ]_vars

\* C18's case: a region that starts at the middle of a frame ten pixels wide
\* and is as wide as the frame has been cut to the five pixels that are left.
C18_Witness ==
    /\ step.op = "setup_roi" /\ ~step.raised
    /\ triggers[1].position = Position(50, 0, 100, 50)
    /\ frame_size = <<2, 10>>
    /\ triggers[1].roi_coords = <<5, 0, 5, 1>>

\* C19: every message handed to a connection by process_frame, reset_triggers
\* or cleanup has its channel in 0..15, its note or control number in 0..127
\* and its velocity or control value a whole number in 0..127.
C19_MessagesInRange ==
    \A k \in 1..Len(sent) :
       /\ sent[k].channel \in 0..15
       /\ sent[k].data1 \in 0..127
       /\ IF sent[k].kind = "on"
          THEN Whole(sent[k].data2) /\ RatIn(sent[k].data2, 0, 127)
          ELSE sent[k].data2 \in 0..127

\* C20: at a frame of time t that finds a binary-mode trigger inactive and its
\* condition true, became_invalid_time is cleared; when throttle = 0 or
\* last_deactivated_time is unset or t - last_deactivated_time >= throttle the
\* trigger becomes active and exactly one Note On is sent for it; otherwise it
\* stays inactive, nothing is sent for it and last_deactivated_time is kept.
\* (step'.seen: how many triggers of the list the frame has evaluated.)
C20_ActivationWhenAllowed ==
    [][ Frame =>
          \A i \in 1..step'.seen :
             (Binary(i) /\ ~triggers[i].active /\ hist'[i].cond = "T") =>
                LET t == triggers[i]
                    allowed == \/ t.throttle = 0
                               \/ t.last_deactivated_time = None
                               \/ now' - t.last_deactivated_time >= t.throttle
                IN  /\ triggers'[i].became_invalid_time = None
                    /\ Count(sent', "off", i) = 0
                    /\ IF allowed
                       THEN triggers'[i].active /\ Count(sent', "on", i) = 1
                       ELSE /\ ~triggers'[i].active
                            /\ Count(sent', "on", i) = 0
                            /\ triggers'[i].last_deactivated_time
                                  = t.last_deactivated_time ]_vars

\* C21: at a frame of time t that finds a binary-mode trigger active and its
\* condition false, became_invalid_time is set to t when it was unset and is
\* kept otherwise; when debounce = 0 or t - became_invalid_time >= debounce the
\* trigger becomes inactive, exactly one Note Off is sent for it and
\* last_deactivated_time is t; otherwise it stays active, nothing is sent for
\* it and last_deactivated_time is kept.
C21_DeactivationWhenAllowed ==
    [][ Frame =>
          \A i \in 1..step'.seen :
             (Binary(i) /\ triggers[i].active /\ hist'[i].cond = "F") =>
                LET t == triggers[i]
                    invalid == IF t.became_invalid_time = None THEN now'
                               ELSE t.became_invalid_time
                    allowed == t.debounce = 0 \/ now' - invalid >= t.debounce
                IN  /\ triggers'[i].became_invalid_time = invalid
                    /\ Count(sent', "on", i) = 0
                    /\ IF allowed
                       THEN /\ ~triggers'[i].active
                            /\ Count(sent', "off", i) = 1
                            /\ triggers'[i].last_deactivated_time = now'
                       ELSE /\ triggers'[i].active
                            /\ Count(sent', "off", i) = 0
                            /\ triggers'[i].last_deactivated_time
                                  = t.last_deactivated_time ]_vars

\* C22: a frame that finds a binary-mode trigger active with its condition
\* true, or inactive with its condition false, sends nothing for it and keeps
\* active and last_deactivated_time; became_invalid_time is unset afterwards in
\* the first case and kept in the second.
C22_NoTransitionNoEvent ==
    [][ Frame =>
          \A i \in 1..step'.seen :
             Binary(i) =>
                LET t == triggers[i]
                    quiet == /\ Count(sent', "on", i) = 0
                             /\ Count(sent', "off", i) = 0
                             /\ Count(sent', "cc", i) = 0
                             /\ triggers'[i].active = t.active
                             /\ triggers'[i].last_deactivated_time = t.last_deactivated_time
                IN  /\ (t.active /\ hist'[i].cond = "T") =>
                          quiet /\ triggers'[i].became_invalid_time = None
                    /\ (~t.active /\ hist'[i].cond = "F") =>
                          quiet /\ triggers'[i].became_invalid_time = t.became_invalid_time
             ]_vars

\* C22's case: a frame has found an active trigger's condition true and sent
\* nothing for it, and has found an inactive trigger's condition false.
C22_Witness ==
    /\ step.op = "frame" /\ ~step.raised
    /\ \E i, j \in 1..step.seen :
          /\ Binary(i) /\ triggers[i].active /\ hist[i].cond = "T"
          /\ Count(sent, "on", i) = 0
          /\ triggers[i].last_deactivated_time # None
          /\ Binary(j) /\ ~triggers[j].active /\ hist[j].cond = "F"
          /\ Count(sent, "off", j) = 0

\* C23: reset_first_frame unsets first_roi of every difference and difference
\* range trigger and changes nothing else of any trigger (active,
\* became_invalid_time, last_deactivated_time, previous_roi, last_cc_value
\* among it); it sends nothing and opens no connection.
C23_OnlyBaselineCleared ==
    [][ CallResetFirstFrame =>
          /\ Len(triggers') = Len(triggers)
          /\ \A i \in Places :
                /\ triggers'[i].first_roi =
                      (IF triggers[i].trigger_type \in {"difference", "difference range"}
                       THEN NoRoi ELSE triggers[i].first_roi)
                /\ [triggers'[i] EXCEPT !.first_roi = triggers[i].first_roi] = triggers[i]
          /\ sent' = <<>>
          /\ controllers' = controllers ]_vars

\* C23's case: reset_first_frame has returned with a difference range trigger
\* that has lost its baseline and kept the control value it sent last, next to
\* a motion trigger that is active and has kept its reference.
C23_Witness ==
    /\ step.op = "reset_first_frame"
    /\ Len(triggers) = 2
    /\ triggers[1].trigger_type = "difference range"
    /\ triggers[1].first_roi = NoRoi
    /\ triggers[1].last_cc_value # None
    /\ triggers[2].trigger_type = "motion"
    /\ triggers[2].previous_roi # NoRoi
    /\ triggers[2].active

\* C24: a process_frame call evaluates the triggers one after the other from
\* the head of the list, every one of them when it returns (step'.seen: how
\* many it has evaluated); it sends at most one message for a trigger, and a
\* message of the trigger at place i leaves before any message of a trigger at
\* a place j > i.
C24_ListOrder ==
    [][ Frame =>
          /\ step'.seen <= Len(triggers)
          /\ ~step'.raised => step'.seen = Len(triggers)
          /\ \A k \in 1..Len(sent') : sent'[k].idx \in 1..step'.seen
          /\ \A k1, k2 \in 1..Len(sent') : k1 < k2 => sent'[k1].idx < sent'[k2].idx
          /\ \A i \in Places : triggers'[i].name = triggers[i].name ]_vars

\* C24's case: one frame has sent a message for the first trigger of the list
\* and then one for the second, each to another device.
C24_Witness ==
    /\ step.op = "frame" /\ step.seen = 2
    /\ Len(sent) = 2
    /\ sent[1].idx = 1 /\ sent[2].idx = 2
    /\ sent[1].dev # sent[2].dev

\* The triggers of a configuration pass Trigger.__init__, name devices that
\* are among the ports, and have regions of some extent in a frame of the size.
TriggersLoad(cfg, size) ==
    /\ ~LoadRaises(cfg)
    /\ \A j \in 1..Len(cfg.triggers) :
          /\ cfg.triggers[j].device # NoDevice => ~ControllerRaises(cfg.triggers[j].device)
          /\ ~SetupRoiRaises(NewTrigger(cfg.triggers[j], GlobalDefaults(cfg)),
                             size[1], size[2])

\* C25: a reload whose configuration has another 'device' or 'source' than the
\* one loaded before completes whenever the new triggers load: the list becomes
\* the new configuration's triggers, each with active, became_invalid_time and
\* last_deactivated_time of the old trigger of its name (the last one of that
\* name) or fresh when there is none; the manager's default device, its
\* connections and the size of the capture's frames stay as they were.
C25_RewiringDoesNotBlock ==
    [][ (/\ ReloadChanged
         /\ \/ Configs[file.content].device # Configs[config].device
            \/ Configs[file.content].source # Configs[config].source) =>
          LET cfg == Configs[file.content]
          IN  /\ default_device_name' = default_device_name
              /\ frame_size' = frame_size
              /\ controllers \subseteq controllers'
              /\ TriggersLoad(cfg, frame_size) =>
                    /\ ~step'.raised
                    /\ Len(triggers') = Len(cfg.triggers)
                    /\ \A j \in 1..Len(cfg.triggers) :
                          LET k == SavedIndex(triggers, cfg.triggers[j].name)
                          IN  /\ triggers'[j].name = cfg.triggers[j].name
                              /\ triggers'[j].trigger_type = cfg.triggers[j].type
                              /\ triggers'[j].roi_coords # NoCoords
                              /\ IF k = 0
                                 THEN /\ ~triggers'[j].active
                                      /\ triggers'[j].became_invalid_time = None
                                      /\ triggers'[j].last_deactivated_time = None
                                 ELSE SameTiming(triggers'[j], triggers[k]) ]_vars

\* C25's case: a reload has completed with a configuration that names no
\* device while the manager keeps the default device of the startup, and a
\* trigger of the new list is active from before.
C25_Witness ==
    /\ step.op = "reload" /\ ~step.raised
    /\ Configs[config].device = NoDevice
    /\ default_device_name = "synth"
    /\ "synth" \in controllers
    /\ \E j \in Places : triggers[j].active /\ triggers[j].device_name = NoDevice

\* C26: after _load_config, and after any number of process_frame calls,
\* self.config is the value that was parsed from the file.
C26_ConfigurationAsParsed ==
    pc \in {"process", "failed"} => config = file.content

\* C27: a trigger that Trigger.__init__ has constructed has threshold set and
\* range_min, range_max unset when its mode is binary, and range_min, range_max
\* set and threshold unset when its mode is continuous.
C27_ThresholdOrRange ==
    \A i \in Places :
       /\ triggers[i].trigger_type \in BinaryTypes =>
             /\ triggers[i].threshold # None
             /\ triggers[i].range_min = None /\ triggers[i].range_max = None
       /\ triggers[i].trigger_type \in ContinuousTypes =>
             /\ triggers[i].range_min # None /\ triggers[i].range_max # None
             /\ triggers[i].threshold = None

\* C28: when the configuration of the startup has an entry that
\* Trigger.__init__ rejects, names a device that is no port, or has a region
\* without extent in the video's frames, VideoMIDITrigger.__init__ raises; the
\* process then takes no further step: no frame is evaluated, nothing is sent.
C28_FailedStartupEnds ==
    [][ /\ pc # "failed"
        /\ Startup =>
             LET cfg == Configs[file.content]
                 J == 1..Len(cfg.triggers)
                 invalid == \E j \in J : ~TriggerValid(cfg.triggers[j], GlobalDefaults(cfg))
                 unknown == \/ ConnectRaises(AvailablePorts, cfg.device)
                            \/ \E j \in J : ConnectRaises(AvailablePorts,
                                                          cfg.triggers[j].device)
                 flat == \E j \in J : RoiOf(cfg.triggers[j].position,
                                            VideoSize[1], VideoSize[2]) = NoCoords
             IN  (invalid \/ unknown \/ flat) <=>
                    (step'.raised /\ pc' = "failed" /\ sent' = <<>>) ]_vars

\* C28's case: the startup has failed for a device that is no port, after the
\* connection of another trigger was opened; nothing has been sent.
C28_Witness ==
    /\ pc = "failed"
    /\ step.op = "startup" /\ step.raised
    /\ \E j \in Places : triggers[j].device_name = "ghost"
    /\ "synth" \in controllers
    /\ sent = <<>>

\* C29: for every trigger name the Note On and Note Off messages sent for it,
\* by process_frame, reset_triggers and cleanup, alternate and begin with a
\* Note On: a Note On is sent only when the name's last note message was no
\* Note On, a Note Off only when it was one (hist[i].lit).
C29_NotesAlternate ==
    [][ (Frame \/ VideoEnded \/ KeyReset \/ CleanupStep) =>
          \A i \in Places :
             LET K == NotePlaces(sent', triggers[i].name)
             IN  \A k \in K :
                    LET before == { m \in K : m < k }
                        was == IF before = {} THEN hist[i].lit
                               ELSE sent'[CHOOSE m \in before :
                                            \A n \in before : n <= m].kind = "on"
                    IN  (sent'[k].kind = "on") # was ]_vars

\* C30: when the loop was left without an exception (the quit key, the end of
\* the video) and cleanup has returned, every note <<device, channel, note>>
\* for which a Note On was sent has had a Note Off since: no note is on.
C30_NoNoteLeftOn ==
    [][ (CleanupStep /\ ~step.raised /\ ~step'.raised /\ hist # <<>>) =>
           NotesOn(hist[1].on, sent') = {} ]_vars

\* C31: with a writer that may write at any moment, the reload's two reads of
\* the file included, the loaded configuration is in the end, and for good,
\* the content of the file, as long as the loop is running.
C31_FinalContentLoaded ==
    <>[](pc \in {"top", "read", "process", "key"} => config = file.content)

\* C32: with a configuration that was loaded (its triggers constructed, their
\* regions set up), process_frame, reset_triggers and cleanup never raise, and
\* a process_frame call leaves no trigger active that was not active before
\* and for which it sent no Note On.
C32_LoadedNeverRaises ==
    [][ (Frame \/ KeyReset \/ VideoEnded \/ CleanupStep) =>
           /\ ~step'.raised
           /\ Frame =>
                 \A i \in Places :
                    (Binary(i) /\ ~triggers[i].active /\ triggers'[i].active) =>
                       \E k \in 1..Len(sent') :
                          sent'[k].idx = i /\ sent'[k].kind = "on" ]_vars

Halted == pc \in {"cleanup", "exited", "failed"}

\* C33: with frames that keep arriving at later and later times, a binary-mode
\* trigger does not stay active for ever with a condition found false at every
\* frame, nor inactive for ever with a condition found true at every frame;
\* the frame that deactivates it is the first one at a time >= debounce after
\* became_invalid_time, the time of the first false frame, and the frame that
\* activates it the first one at a time >= throttle after
\* last_deactivated_time.
C33_EventuallySwitched ==
    /\ \A i \in 1..2 :
          /\ []<>(Halted \/ ~(/\ i \in Places /\ Binary(i)
                              /\ hist[i].cond = "F" /\ triggers[i].active))
          /\ []<>(Halted \/ ~(/\ i \in Places /\ Binary(i)
                              /\ hist[i].cond = "T" /\ ~triggers[i].active))
    /\ [][ ClockFrame =>
             \A i \in 1..step'.seen :
                LET t == triggers'[i]
                    was == triggers[i].active
                IN  /\ (Binary(i) /\ was /\ hist'[i].cond = "F") =>
                          /\ t.became_invalid_time # None
                          /\ hist'[i].fsince # None =>
                                t.became_invalid_time = hist'[i].fsince
                          /\ ~t.active <=>
                                (t.debounce = 0
                                 \/ now' - t.became_invalid_time >= t.debounce)
                    /\ (Binary(i) /\ ~was /\ hist'[i].cond = "T") =>
                          (t.active <=>
                              (\/ t.throttle = 0 \/ t.last_deactivated_time = None
                               \/ now' - t.last_deactivated_time >= t.throttle)) ]_vars

\* C33's case: a trigger with a debounce stayed active while frames found its
\* condition false, and the frame at the time debounce after the first false
\* one has just deactivated it.
C33_Witness ==
    /\ FrameDone
    /\ \E i \in Places :
          /\ Binary(i) /\ triggers[i].debounce > 0
          /\ hist[i].cond = "F" /\ hist[i].fsince # None
          /\ now - hist[i].fsince >= triggers[i].debounce
          /\ ~triggers[i].active
          /\ Count(sent, "off", i) = 1

====
